---------------------------- MODULE Spec2Model ----------------------------
(***************************************************************************)
(* A model of oazmi/socks: the Sock websocket wrapper (sock.ts), the       *)
(* time-synchronization plugin (plugins/timesync.ts, and the earlier       *)
(* version of it whose result the speed test destructures) and the         *)
(* speed-test plugin (plugins/speedtest.ts).  Each endpoint is a           *)
(* single-threaded event loop: one action is one run-to-completion task,   *)
(* an event listener or an API call together with the microtasks it        *)
(* schedules.                                                              *)
(*                                                                         *)
(* Specifications: Spec (the dispatcher and Sock.create), SpecTimesync     *)
(* (the time-sync protocol), SpecSpeedtest (the speed-test protocol on top *)
(* of either time-sync plugin), SpecPure (the pure functions),             *)
(* SpecReceivers and SpecCalls (the methods of the Sock, called by the     *)
(* application), SpecLossy (a speed test over a connection that loses      *)
(* replies), SpecSerial (calls of both protocols, one after the other),    *)
(* SpecSubtest (one speed-test call with a short pattern), SpecPlugins     *)
(* (the plugins are applied to the Socks, in any order), SpecKept (the     *)
(* application keeps the lists its time-sync calls resolved with),         *)
(* SpecOverlap (a second time-sync call is made before the first has       *)
(* resolved), SpecFloat64 (the sample of one round, derived in the         *)
(* arithmetic of 64-bit floats).                                           *)
(***************************************************************************)
EXTENDS Integers, Sequences, FiniteSets, TLC

(***************************************************************************)
(* Bounds of the model.                                                    *)
(***************************************************************************)
\* frames in flight towards one endpoint, in the dispatcher specification
MaxQueue == 1
\* largest `amount` of a time-sync call made by the application
MaxRounds == 3
\* time-sync calls the application makes, one after the other
MaxCalls == 2
\* how far real time advances during a run of the time-sync specification
MaxTime == 3
\* sub-tests in the pattern of a speed-test call
MaxTests == 3
\* how far real time advances during a run of the speed-test specification
MaxSpeedtestTime == 1
\* speed-test calls the application makes, one after the other
MaxSpeedtestCalls == 1
\* sub-tests in the pattern of a speed-test call over a connection that
\* loses replies
MaxLossyTests == 1
\* protocol calls the application makes one after the other, of either
\* protocol, and sub-tests in the pattern of a speed-test call among them
MaxSerialCalls == 2
MaxSerialTests == 2
\* sub-tests in the pattern of a speed-test call, and how far real time
\* advances, in the specification of the single sub-tests
MaxSubtests == 1
MaxSubtestTime == 1

\* time-sync calls whose lists the application keeps, the largest `amount`
\* of such a call, and how far real time advances meanwhile
MaxKeptCalls == 2
MaxKeptRounds == 2
MaxKeptTime == 1

\* largest `amount` of two time-sync calls of which the second is made
\* before the first has resolved
MaxOverlapRounds == 2

\* length of the sequences computeMean is called with
MaxSamples == 3

Endpoints == {"client", "server"}

Peer(e) == IF e = "client" THEN "server" ELSE "client"

(***************************************************************************)
(* JavaScript values.  An optional string (string | undefined) is the      *)
(* empty tuple for undefined and a one-element tuple for a string.         *)
(***************************************************************************)
Undefined == <<>>

Str(s) == <<s>>

\* ToPropertyKey of a string | undefined used as a computed member name
PropertyKey(v) == IF v = Undefined THEN "undefined" ELSE v[1]

\* the function-valued members every plain object inherits from
\* Object.prototype (a sample of them); calling one with (sock, message)
\* returns normally
ObjectPrototypeMethods == {"toString", "constructor"}

\* kinds the application of the dispatcher specification registers and expects
AppKinds == {"k1", "k2"}

\* kinds a text message may carry, and expectBinaryKind may be given
AnyKinds == AppKinds \cup {"toString"}

\* handler functions of the application
AppHandlers == {"hA", "hB"}

\* payloads of the application's binary messages
AppPayloads == {<<1>>, <<2>>}

(***************************************************************************)
(* Frames on the wire.  A text frame is JSON.stringify of a message object *)
(* { kind, ...fields }; a binary frame is a byte buffer, of which the      *)
(* model keeps the length and the leading 64-bit float slots.              *)
(***************************************************************************)
JsonMessage(kind, size, time) ==
    [type |-> "text", kind |-> kind, size |-> size, time |-> time, amount |-> 0,
     numberOfTests |-> 0, f64 |-> <<>>, byteLength |-> 0]

BinaryData(f64, byteLength) ==
    [type |-> "binary", kind |-> "", size |-> 0, time |-> <<>>, amount |-> 0,
     numberOfTests |-> 0, f64 |-> f64, byteLength |-> byteLength]

\* history: a binary frame carries no kind; its kind field, which no code
\* reads, keeps the binary kind the plugin that sent it meant it for
MeantFor(frame, kind) == [frame EXCEPT !.kind = kind]

VARIABLES
    readyState,             \* websocket.readyState of each endpoint's socket
    createState,            \* the promise returned by Sock.create: idle (not called), pending, resolved, rejected
    openListener,           \* whether Sock.create added its "open" listener
    sockSocket,             \* sock.socket of the Sock constructed, "none" before
    jsonReceivers,          \* Sock.jsonReceivers, per endpoint
    binaryReceivers,        \* Sock.binaryReceivers, per endpoint
    binaryReceiverNextKind, \* Sock.binaryReceiverNextKind, per endpoint
    inbox,                  \* frames in flight towards each endpoint, in order
    sentLog,                \* history: every frame each endpoint wrote to its socket
    lastEvent,              \* what the most recent "message" event did, per endpoint
    now,                    \* real time
    clockSkew,              \* the server's clock minus the client's clock
    timeCap,                \* real time stops advancing here (bounds the model)
    testCap,                \* the longest test pattern the application passes (bounds the model)
    ts_server,              \* timesync applyServerPlugin: its closure variables
    ts_client,              \* timesync applyClientPlugin: its closure variables
    ts_calls,               \* the promises of the TimesyncFn calls, in call order
    ts0_server,             \* earlier timesync applyServerPlugin: its closure variables
    ts0_client,             \* earlier timesync applyClientPlugin: its closure variables
    st_server,              \* speedtest applyServerPlugin: its closure variables
    st_client,              \* speedtest applyClientPlugin: its closure variables
    st_calls,               \* the promises of the speed-test calls, in call order
    callStart,              \* history: the expected binary kinds around the latest protocol call
                            \* and when its init message arrived at the server, and the
                            \* promises that were pending when a reply was lost
    pureCall,               \* a call of one of the plugins' pure functions: argument and result
    sockCall                \* history: the latest call of a method of the client's Sock

connVars == <<readyState, createState, openListener, sockSocket>>

sockVars == <<jsonReceivers, binaryReceivers, binaryReceiverNextKind>>

netVars == <<inbox, sentLog>>

closureVars == <<ts_server, ts_client, ts_calls, ts0_server, ts0_client,
                 st_server, st_client, st_calls>>

\* everything the plugins own
protocolVars == <<now, clockSkew, timeCap, testCap, closureVars, callStart, pureCall>>

\* everything the Sock's events leave alone
pluginVars == <<protocolVars, sockCall>>

vars == <<readyState, createState, openListener, sockSocket, jsonReceivers,
          binaryReceivers, binaryReceiverNextKind, inbox, sentLog, lastEvent,
          now, clockSkew, timeCap, testCap, ts_server, ts_client, ts_calls, ts0_server,
          ts0_client, st_server, st_client, st_calls, callStart, pureCall, sockCall>>

(***************************************************************************)
(* Sock: routing tables.                                                   *)
(***************************************************************************)
\* `= {}`: a plain object with no own member
EmptyReceivers == [k \in {} |-> ""]

\* a table in which the first handler set under a kind stays
SetReceiverOnce(receivers, kind, handler) ==
    [k \in (DOMAIN receivers) \cup {kind} |->
        IF k \in DOMAIN receivers THEN receivers[k] ELSE handler]

\* this.jsonReceivers[kind] = handler / this.binaryReceivers[kind] = handler
SetReceiver(receivers, kind, handler) ==
    [k \in (DOMAIN receivers) \cup {kind} |->
        IF k = kind THEN handler ELSE receivers[k]]

\* receivers[key]: the own member, else the member inherited from
\* Object.prototype, else undefined (and calling undefined throws a TypeError)
Lookup(receivers, key) ==
    IF key \in DOMAIN receivers
    THEN [callable |-> TRUE, registered |-> TRUE, fn |-> receivers[key]]
    ELSE IF key \in ObjectPrototypeMethods
    THEN [callable |-> TRUE, registered |-> FALSE, fn |-> key]
    ELSE [callable |-> FALSE, registered |-> FALSE, fn |-> ""]

\* a dispatcher that looks a text message up among the binary handlers
JsonTargetInBinaryTable(e, m) == Lookup(binaryReceivers[e], m.kind)

\* the member the text branch calls: jsonReceivers[message.kind]
JsonTarget(e, m) == Lookup(jsonReceivers[e], m.kind)

\* a dispatcher that routes a binary message by the kind of the last text
\* message instead of the expected binary kind
BinaryTargetByLastText(e, m) == Lookup(binaryReceivers[e], lastEvent[e].kind)

\* the member the binary branch calls: binaryReceivers[this.binaryReceiverNextKind]
BinaryTarget(e, m) ==
    Lookup(binaryReceivers[e], PropertyKey(binaryReceiverNextKind[e]))

\* the message listener's branch on typeof event.data
Target(e, m) ==
    IF m.type = "text" THEN JsonTarget(e, m) ELSE BinaryTarget(e, m)

\* what one "message" event did: the frame; for a binary frame the expected
\* binary kind when it arrived; the handler then registered (an own member of
\* the table) under the frame's kind, respectively under the expected binary
\* kind; the functions called, in order; and whether the listener threw
Event(e, m, called, threw) ==
    [type |-> m.type, kind |-> m.kind, f64 |-> m.f64,
     nextKind |-> IF m.type = "binary" THEN binaryReceiverNextKind[e] ELSE Undefined,
     registered |->
        IF m.type = "text"
        THEN IF m.kind \in DOMAIN jsonReceivers[e]
             THEN <<jsonReceivers[e][m.kind]>> ELSE <<>>
        ELSE IF binaryReceiverNextKind[e] # Undefined
                /\ binaryReceiverNextKind[e][1] \in DOMAIN binaryReceivers[e]
             THEN <<binaryReceivers[e][binaryReceiverNextKind[e][1]]>> ELSE <<>>,
     called |-> called, threw |-> threw]

NoEvent ==
    [type |-> "none", kind |-> "", f64 |-> <<>>, nextKind |-> Undefined,
     registered |-> <<>>, called |-> <<>>, threw |-> FALSE]

(***************************************************************************)
(* Sock: sending and the bookkeeping of one message event.                 *)
(***************************************************************************)
\* this.socket.send(...): the frames join the peer's inbox, in order
Send(e, frames) ==
    inbox' = [inbox EXCEPT ![Peer(e)] = @ \o frames]

\* a message event of endpoint e takes the head of its inbox; what its
\* listener sends joins the peer's inbox
Consume(e, frames) ==
    inbox' = [inbox EXCEPT ![e] = Tail(@), ![Peer(e)] = @ \o frames]

\* history of the frames e wrote
Log(e, frames) ==
    sentLog' = [sentLog EXCEPT ![e] = @ \o frames]

\* the history starts afresh with the frames e wrote: at a call of the
\* application, and in the task in which a speed-test call goes on past its
\* await
LogAfresh(e, frames) ==
    sentLog' = [p \in Endpoints |-> IF p = e THEN frames ELSE <<>>]

Record(e, m, called, threw) ==
    lastEvent' = [lastEvent EXCEPT ![e] = Event(e, m, called, threw)]

\* a listener that forgets the expected binary kind when the call throws
ThrowNotAFunctionForgets(e, m) ==
    /\ Consume(e, <<>>)
    /\ UNCHANGED sentLog
    /\ Record(e, m, <<>>, TRUE)
    /\ binaryReceiverNextKind' = [binaryReceiverNextKind EXCEPT ![e] = Undefined]
    /\ UNCHANGED <<connVars, jsonReceivers, binaryReceivers, pluginVars>>

\* calling undefined: the listener throws a TypeError before anything else
\* happens
ThrowNotAFunction(e, m) ==
    /\ Consume(e, <<>>)
    /\ UNCHANGED sentLog
    /\ Record(e, m, <<>>, TRUE)
    /\ UNCHANGED <<connVars, sockVars, pluginVars>>

\* a function inherited from Object.prototype is called and returns
CallInherited(e, m, fn) ==
    /\ Consume(e, <<>>)
    /\ UNCHANGED sentLog
    /\ Record(e, m, <<fn>>, FALSE)
    /\ UNCHANGED <<connVars, sockVars, pluginVars>>

\* a listener that sets the expected binary kind to undefined once it has
\* routed a binary message
AppHandlerOnce(e, m, fn) ==
    /\ Consume(e, <<>>)
    /\ UNCHANGED sentLog
    /\ Record(e, m, <<fn>>, FALSE)
    /\ binaryReceiverNextKind' =
           [binaryReceiverNextKind EXCEPT ![e] = IF m.type = "binary" THEN Undefined ELSE @]
    /\ UNCHANGED <<connVars, jsonReceivers, binaryReceivers, pluginVars>>

\* a handler of the application: it looks at the message and returns
AppHandler(e, m, fn) ==
    /\ Consume(e, <<>>)
    /\ UNCHANGED sentLog
    /\ Record(e, m, <<fn>>, FALSE)
    /\ UNCHANGED <<connVars, sockVars, pluginVars>>

(***************************************************************************)
(* Sock.create and the constructor.                                        *)
(***************************************************************************)
\* new Sock(websocket): the fields, and the message listener on websocket
SockConstructor(e, websocket) ==
    /\ sockSocket' = [sockSocket EXCEPT ![e] = websocket]
    /\ jsonReceivers' = [jsonReceivers EXCEPT ![e] = EmptyReceivers]
    /\ binaryReceivers' = [binaryReceivers EXCEPT ![e] = EmptyReceivers]
    /\ binaryReceiverNextKind' = [binaryReceiverNextKind EXCEPT ![e] = Undefined]

\* a create that constructs the Sock whatever the readyState
CreateUnconditionally(e) ==
    /\ createState[e] = "idle"
    /\ SockConstructor(e, e)
    /\ createState' = [createState EXCEPT ![e] = "resolved"]
    /\ UNCHANGED <<openListener, readyState, netVars, lastEvent, pluginVars>>

\* Sock.create(websocket), up to its await, and past it when `ready` is
\* already settled (the continuation is a microtask of the same task)
Create(e) ==
    /\ createState[e] = "idle"
    /\ CASE readyState[e] = "OPEN" ->
              /\ SockConstructor(e, e)
              /\ createState' = [createState EXCEPT ![e] = "resolved"]
              /\ UNCHANGED openListener
         [] readyState[e] = "CONNECTING" ->
              /\ openListener' = [openListener EXCEPT ![e] = TRUE]
              /\ createState' = [createState EXCEPT ![e] = "pending"]
              /\ UNCHANGED <<sockSocket, sockVars>>
         [] OTHER ->
              /\ createState' = [createState EXCEPT ![e] = "rejected"]
              /\ UNCHANGED <<openListener, sockSocket, sockVars>>
    /\ UNCHANGED <<readyState, netVars, lastEvent, pluginVars>>

\* a create whose "open" listener does not resolve `ready`
SocketOpenNoResolve(e) ==
    /\ readyState[e] = "CONNECTING"
    /\ readyState' = [readyState EXCEPT ![e] = "OPEN"]
    /\ UNCHANGED <<createState, sockSocket, sockVars, openListener, netVars, lastEvent,
                   pluginVars>>

\* the connection is established: readyState becomes OPEN and the "open"
\* event fires; the listener of a pending create resolves `ready`, and
\* create goes on to construct the Sock
SocketOpen(e) ==
    /\ readyState[e] = "CONNECTING"
    /\ readyState' = [readyState EXCEPT ![e] = "OPEN"]
    /\ IF openListener[e]
       THEN /\ SockConstructor(e, e)
            /\ createState' = [createState EXCEPT ![e] = "resolved"]
       ELSE UNCHANGED <<createState, sockSocket, sockVars>>
    /\ UNCHANGED <<openListener, netVars, lastEvent, pluginVars>>

\* the connection attempt fails: "error" and "close" fire, for which create
\* has no listener
SocketFail(e) ==
    /\ readyState[e] = "CONNECTING"
    /\ readyState' = [readyState EXCEPT ![e] = "CLOSED"]
    /\ UNCHANGED <<createState, openListener, sockSocket, sockVars, netVars,
                   lastEvent, pluginVars>>

(***************************************************************************)
(* Sock: the application's calls.                                          *)
(***************************************************************************)
addJsonReceiver(e, kind, handler) ==
    /\ sockSocket[e] # "none"
    /\ jsonReceivers' = [jsonReceivers EXCEPT ![e] = SetReceiver(@, kind, handler)]
    /\ UNCHANGED <<binaryReceivers, binaryReceiverNextKind, connVars, netVars, lastEvent, protocolVars>>

addBinaryReceiver(e, kind, handler) ==
    /\ sockSocket[e] # "none"
    /\ binaryReceivers' = [binaryReceivers EXCEPT ![e] = SetReceiver(@, kind, handler)]
    /\ UNCHANGED <<jsonReceivers, binaryReceiverNextKind, connVars, netVars, lastEvent, protocolVars>>

\* an expectBinaryKind that sets the kind only while it is unset
expectBinaryKindOnce(e, kind) ==
    /\ sockSocket[e] # "none"
    /\ binaryReceiverNextKind' =
           [binaryReceiverNextKind EXCEPT ![e] = IF @ = Undefined THEN Str(kind) ELSE @]
    /\ UNCHANGED <<jsonReceivers, binaryReceivers, connVars, netVars, lastEvent, protocolVars>>

expectBinaryKind(e, kind) ==
    /\ sockSocket[e] # "none"
    /\ binaryReceiverNextKind' = [binaryReceiverNextKind EXCEPT ![e] = Str(kind)]
    /\ UNCHANGED <<jsonReceivers, binaryReceivers, connVars, netVars, lastEvent, protocolVars>>

\* sock.getBinaryKind(): the value returned
getBinaryKind(e) == binaryReceiverNextKind[e]

\* a sendJson that writes the frame twice
sendJsonTwice(e, message) ==
    /\ sockSocket[e] # "none"
    /\ Send(e, <<message, message>>)
    /\ UNCHANGED <<connVars, sockVars, lastEvent, protocolVars>>

\* sock.sendJson(message): socket.send(JSON.stringify(message))
sendJson(e, message) ==
    /\ sockSocket[e] # "none"
    /\ Send(e, <<message>>)
    /\ UNCHANGED <<connVars, sockVars, lastEvent, protocolVars>>

\* sock.sendBinary(data): socket.send(data)
sendBinary(e, data) ==
    /\ sockSocket[e] # "none"
    /\ Send(e, <<data>>)
    /\ UNCHANGED <<connVars, sockVars, lastEvent, protocolVars>>

(***************************************************************************)
(* Plugins run inside tasks of an endpoint's event loop.  A task is        *)
(* computed on a record of what it may change: the endpoint's expected     *)
(* binary kind, the frames it sends, whether it threw, how many times it   *)
(* read the clock, the closure variables of the plugins, the promises of  *)
(* the protocol calls and how many of those were made.                     *)
(***************************************************************************)
Task(e) ==
    [kind |-> binaryReceiverNextKind[e], out |-> <<>>, threw |-> FALSE, reads |-> 0,
     made |-> callStart.promises, readPattern |-> FALSE,
     ts_server |-> ts_server, ts_client |-> ts_client, ts_calls |-> ts_calls,
     ts0_server |-> ts0_server, ts0_client |-> ts0_client,
     st_server |-> st_server, st_client |-> st_client, st_calls |-> st_calls]

\* sock.sendJson / sock.sendBinary inside a task
TaskSend(X, frame) == [X EXCEPT !.out = Append(@, frame)]

\* sock.expectBinaryKind inside a task (kind: string | undefined)
TaskExpect(X, kind) == [X EXCEPT !.kind = kind]

\* one call of get_time() inside a task
TaskRead(X) == [X EXCEPT !.reads = @ + 1]

\* an exception leaves the task
TaskThrow(X) == [X EXCEPT !.threw = TRUE]

\* a clock of the server that shows the client's time
get_time_of_client(e, t) == t

\* get_time() of endpoint e at real time t: the device's own clock
get_time(e, t) == IF e = "server" THEN t + clockSkew ELSE t

\* the offsets between the two clocks the model tries
ClockSkews == {-1, 5}

\* the byte sizes of the sub-tests the model tries: one too small for the
\* timestamp, the least that holds it, and one above
TestSizes == {4, 8, 9}

\* time_array: four 64-bit floats
TimeArrayBytes == 32

\* (new Float64Array(data, 0, n))[i - 1]
Slot(m, i) == IF i <= Len(m.f64) THEN m.f64[i] ELSE 0

(***************************************************************************)
(* plugins/timesync.ts                                                     *)
(***************************************************************************)
timesync_CS_json_init == "timesync_init"

timesync_SC_json_init_ready == "timesync_init_ready"

timesync_CS_binary_ct0 == "timesync_array_ct0"

timesync_SC_binary_ct0st0st1 == "timesync_array_ct0st0st1"

timesync_CS_json_end == "timesync_end"

\* a derivation whose return trip time keeps the server's process time
time_array_to_timesync_result_gross(time_array) ==
    LET ct0 == time_array[1]
        st0 == time_array[2]
        st1 == time_array[3]
        ct1 == time_array[4]
    IN [serverUplinkOffsetTime |-> st0 - ct0,
        serverDownlinkOffsetTime |-> ct1 - st1,
        serverProcessTime |-> st1 - st0,
        returnTripTime |-> ct1 - ct0]

time_array_to_timesync_result(time_array) ==
    LET ct0 == time_array[1]
        st0 == time_array[2]
        st1 == time_array[3]
        ct1 == time_array[4]
        serverUplinkOffsetTime == st0 - ct0
        serverDownlinkOffsetTime == ct1 - st1
        serverProcessTime == st1 - st0
        returnTripTime == (ct1 - ct0) - serverProcessTime
    IN [serverUplinkOffsetTime |-> serverUplinkOffsetTime,
        serverDownlinkOffsetTime |-> serverDownlinkOffsetTime,
        serverProcessTime |-> serverProcessTime,
        returnTripTime |-> returnTripTime]

\* applyServerPlugin: the receivers it adds to the sock
timesync_applyServerPlugin_json(receivers) ==
    SetReceiver(SetReceiver(receivers, timesync_CS_json_init, "timesync_server_init"),
                timesync_CS_json_end, "timesync_server_end")

timesync_applyServerPlugin_binary(receivers) ==
    SetReceiver(receivers, timesync_CS_binary_ct0, "timesync_server_ct0")

\* applyServerPlugin: `let original_binary_kind: string`
timesync_ServerClosure == [original_binary_kind |-> Undefined]

\* a receiver of CS_json_init that acknowledges without expecting the round
\* buffers
timesync_server_init_no_expect(X, m) ==
    LET X1 == [X EXCEPT !.ts_server.original_binary_kind = X.kind]
    IN TaskSend(X1, JsonMessage(timesync_SC_json_init_ready, 0, <<>>))

\* a receiver of CS_json_init that sends its acknowledgement a second time
timesync_server_init_resend(X, m) ==
    LET X1 == [X EXCEPT !.ts_server.original_binary_kind = X.kind]
        X2 == TaskExpect(X1, Str(timesync_CS_binary_ct0))
        X3 == TaskSend(X2, JsonMessage(timesync_SC_json_init_ready, 0, <<>>))
    IN TaskSend(X3, JsonMessage(timesync_SC_json_init_ready, 0, <<>>))

\* the receiver of CS_json_init
timesync_server_init(X, m) ==
    LET X1 == [X EXCEPT !.ts_server.original_binary_kind = X.kind]
        X2 == TaskExpect(X1, Str(timesync_CS_binary_ct0))
    IN TaskSend(X2, JsonMessage(timesync_SC_json_init_ready, 0, <<>>))

\* a receiver of CS_json_end that leaves the expected binary kind alone
timesync_server_end_keep(X, m) == X

\* a receiver of CS_json_end that leaves the server expecting no kind
timesync_server_end_unset(X, m) == TaskExpect(X, Undefined)

\* the receiver of CS_json_end
timesync_server_end(X, m) ==
    TaskExpect(X, X.ts_server.original_binary_kind)

\* a receiver of CS_binary_ct0 that writes its two readings the other way round
timesync_server_ct0_swapped(X, m, st0, st1) ==
    IF m.byteLength < TimeArrayBytes
    THEN TaskThrow(TaskRead(X))
    ELSE TaskSend(TaskRead(TaskRead(X)),
                  MeantFor(BinaryData(<<Slot(m, 1), st1, st0, Slot(m, 4)>>, TimeArrayBytes),
                           timesync_SC_binary_ct0st0st1))

\* the receiver of the binary kind CS_binary_ct0; a buffer too short for the
\* view of four floats makes the Float64Array constructor throw
timesync_server_ct0(X, m, st0, st1) ==
    IF m.byteLength < TimeArrayBytes
    THEN TaskThrow(TaskRead(X))
    ELSE TaskSend(TaskRead(TaskRead(X)),
                  MeantFor(BinaryData(<<Slot(m, 1), st0, st1, Slot(m, 4)>>, TimeArrayBytes),
                           timesync_SC_binary_ct0st0st1))

\* applyClientPlugin: the receivers it adds to the sock
timesync_applyClientPlugin_json(receivers) ==
    SetReceiver(receivers, timesync_SC_json_init_ready, "timesync_client_init_ready")

timesync_applyClientPlugin_binary(receivers) ==
    SetReceiver(receivers, timesync_SC_binary_ct0st0st1, "timesync_client_ct0st0st1")

\* a generator object: where its body is suspended, the loop variable i, and
\* what its closure captured (amount, and the resolver of which call)
NoGenerator == [state |-> "undefined", amount |-> 0, i |-> 0, call |-> 0]

\* applyClientPlugin: `results`, `original_binary_kind`, `executeNextTest`
timesync_ClientClosure ==
    [original_binary_kind |-> Undefined, results |-> <<>>, executeNextTest |-> NoGenerator]

\* the value of i with which the generator's loop test runs on the next next()
timesync_next_i(g) == IF g.state = "suspendedStart" THEN 0 ELSE g.i + 1

\* the next next() sends one more round buffer
timesync_continues(g) ==
    /\ g.state \in {"suspendedStart", "suspendedYield"}
    /\ timesync_next_i(g) < g.amount

\* a resolve that settles every pending promise
ResolveAll(calls, id, value) ==
    [c \in DOMAIN calls |->
        IF calls[c].state = "pending"
        THEN [calls[c] EXCEPT !.state = "resolved", !.value = value]
        ELSE calls[c]]

\* resolve(value) of the promise `id`; settling a settled promise does nothing
Resolve(calls, id, value) ==
    [c \in DOMAIN calls |->
        IF calls[c].id = id /\ calls[c].state = "pending"
        THEN [calls[c] EXCEPT !.state = "resolved", !.value = value]
        ELSE calls[c]]

\* an epilogue that resolves with the closure's array itself and leaves the
\* samples in it
timesync_finish_shared(X) ==
    LET g == X.ts_client.executeNextTest
        X1 == TaskSend(X, JsonMessage(timesync_CS_json_end, 0, <<>>))
        X2 == TaskExpect(X1, X.ts_client.original_binary_kind)
    IN [X2 EXCEPT !.ts_calls = Resolve(@, g.call, X.ts_client.results),
                  !.ts_client.executeNextTest.state = "completed",
                  !.ts_client.executeNextTest.i = timesync_next_i(g)]

\* the generator's epilogue: end message, restoration, resolution with
\* results.splice(0), a new array of the samples, which leaves `results` empty
timesync_finish(X) ==
    LET g == X.ts_client.executeNextTest
        X1 == TaskSend(X, JsonMessage(timesync_CS_json_end, 0, <<>>))
        X2 == TaskExpect(X1, X.ts_client.original_binary_kind)
    IN [X2 EXCEPT !.ts_calls = Resolve(@, g.call, X.ts_client.results),
                  !.ts_client.results = <<>>,
                  !.ts_client.executeNextTest.state = "completed",
                  !.ts_client.executeNextTest.i = timesync_next_i(g)]

\* an executeNextTest.next() whose loop stops one round early
timesync_executeNextTest_short(X, ct0) ==
    LET g == X.ts_client.executeNextTest IN
    IF g.state = "undefined" THEN TaskThrow(X)
    ELSE IF g.state = "completed" THEN X
    ELSE IF timesync_next_i(g) + 1 < g.amount
    THEN [TaskSend(TaskRead(X), MeantFor(BinaryData(<<ct0, 0, 0, 0>>, TimeArrayBytes),
                                         timesync_CS_binary_ct0))
             EXCEPT !.ts_client.executeNextTest.state = "suspendedYield",
                    !.ts_client.executeNextTest.i = timesync_next_i(g)]
    ELSE timesync_finish(X)

\* an executeNextTest.next() whose loop tests `i < amount` after its body
timesync_executeNextTest_dowhile(X, ct0) ==
    LET g == X.ts_client.executeNextTest IN
    IF g.state = "undefined" THEN TaskThrow(X)
    ELSE IF g.state = "completed" THEN X
    ELSE IF g.state = "suspendedStart" \/ timesync_continues(g)
    THEN [TaskSend(TaskRead(X), MeantFor(BinaryData(<<ct0, 0, 0, 0>>, TimeArrayBytes),
                                         timesync_CS_binary_ct0))
             EXCEPT !.ts_client.executeNextTest.state = "suspendedYield",
                    !.ts_client.executeNextTest.i = timesync_next_i(g)]
    ELSE timesync_finish(X)

\* executeNextTest.next(): the generator runs to its next yield or to its end;
\* ct0 is what get_time() returns if it is read
timesync_executeNextTest(X, ct0) ==
    LET g == X.ts_client.executeNextTest IN
    IF g.state = "undefined" THEN TaskThrow(X)
    ELSE IF g.state = "completed" THEN X
    ELSE IF timesync_continues(g)
    THEN [TaskSend(TaskRead(X), MeantFor(BinaryData(<<ct0, 0, 0, 0>>, TimeArrayBytes),
                                         timesync_CS_binary_ct0))
             EXCEPT !.ts_client.executeNextTest.state = "suspendedYield",
                    !.ts_client.executeNextTest.i = timesync_next_i(g)]
    ELSE timesync_finish(X)

\* a receiver of SC_json_init_ready that starts two rounds at once
timesync_client_init_ready_twice(X, m, t1) ==
    timesync_executeNextTest(timesync_executeNextTest(X, t1), t1)

\* the receiver of SC_json_init_ready
timesync_client_init_ready(X, m, t1) ==
    timesync_executeNextTest(X, t1)

\* the receiver of the binary kind SC_binary_ct0st0st1
timesync_client_ct0st0st1(X, m, ct1, t2) ==
    IF m.byteLength < TimeArrayBytes
    THEN TaskThrow(TaskRead(X))
    ELSE LET time_array == <<Slot(m, 1), Slot(m, 2), Slot(m, 3), ct1>>
             X1 == [TaskRead(X) EXCEPT !.ts_client.results =
                        Append(@, time_array_to_timesync_result(time_array))]
         IN timesync_executeNextTest(X1, t2)

\* a TimesyncFn that keeps the original_binary_kind of a call that is still
\* under way
TimesyncFn_keeps_original(X, amount) ==
    LET id == X.made + 1
        g == X.ts_client.executeNextTest
        X1 == [X EXCEPT !.made = id,
                        !.ts_calls = Append(@, [id |-> id, amount |-> amount,
                                                 discard |-> 0, fn |-> "timesync",
                                                 state |-> "pending", value |-> <<>>]),
                        !.ts_client.original_binary_kind =
                            IF g.state \in {"suspendedStart", "suspendedYield"}
                            THEN @ ELSE X.kind,
                        !.ts_client.executeNextTest =
                            [state |-> "suspendedStart", amount |-> amount, i |-> 0,
                             call |-> id]]
        X2 == TaskExpect(X1, Str(timesync_SC_binary_ct0st0st1))
    IN TaskSend(X2, [JsonMessage(timesync_CS_json_init, 0, <<>>) EXCEPT !.amount = amount])

\* the TimesyncFn applyClientPlugin returns, called with `amount`
TimesyncFn(X, amount) ==
    LET id == X.made + 1
        X1 == [X EXCEPT !.made = id,
                        !.ts_calls = Append(@, [id |-> id, amount |-> amount,
                                                 discard |-> 0, fn |-> "timesync",
                                                 state |-> "pending", value |-> <<>>]),
                        !.ts_client.original_binary_kind = X.kind,
                        !.ts_client.executeNextTest =
                            [state |-> "suspendedStart", amount |-> amount, i |-> 0,
                             call |-> id]]
        X2 == TaskExpect(X1, Str(timesync_SC_binary_ct0st0st1))
    IN TaskSend(X2, [JsonMessage(timesync_CS_json_init, 0, <<>>) EXCEPT !.amount = amount])

(***************************************************************************)
(* The earlier plugins/timesync.ts, whose TimesyncFn(amount, discard)      *)
(* resolves with [means, standard deviations]: the shape the speed-test    *)
(* client takes its offsets from.                                          *)
(***************************************************************************)
timesync0_plugin_json_kind_init == "timesync_init"

timesync0_plugin_json_kind_end == "timesync_end"

timesync0_plugin_binary_kind == "timesync_array"

\* a quotient of two integers, kept exact
Rat(num, den) == [num |-> num, den |-> den]

RECURSIVE sum(_)
sum(values) == IF values = <<>> THEN 0 ELSE Head(values) + sum(Tail(values))

time_array_to_stat(time_array) ==
    LET ct0 == time_array[1]
        st0 == time_array[2]
        st1 == time_array[3]
        ct1 == time_array[4]
        serverUplinkOffsetTime == st0 - ct0
        serverDownlinkOffsetTime == ct1 - st1
        serverProcessTime == st1 - st0
        returnTripTime == (ct1 - ct0) - serverProcessTime
    IN <<serverUplinkOffsetTime, serverDownlinkOffsetTime, serverProcessTime, returnTripTime>>

\* [mean_stats, stdev_stats]; the standard deviations, which nothing reads,
\* are left out
time_arrays_to_stats(time_arrays) ==
    LET samples == Len(time_arrays)
        stats == [entry \in 1..4 |->
                     [k \in 1..samples |-> time_array_to_stat(time_arrays[k])[entry]]]
        mean_stats == [entry \in 1..4 |-> Rat(sum(stats[entry]), samples)]
    IN [mean_stats |-> mean_stats]

timesync0_applyServerPlugin_json(receivers) ==
    SetReceiver(SetReceiver(receivers, timesync0_plugin_json_kind_init, "timesync0_server_init"),
                timesync0_plugin_json_kind_end, "timesync0_server_end")

timesync0_applyServerPlugin_binary(receivers) ==
    SetReceiver(receivers, timesync0_plugin_binary_kind, "timesync0_server_array")

\* applyServerPlugin: `let original_binary_kind: string`
timesync0_ServerClosure == [original_binary_kind |-> Undefined]

\* the receiver of plugin_json_kind_init: no reply
timesync0_server_init(X, m) ==
    TaskExpect([X EXCEPT !.ts0_server.original_binary_kind = X.kind],
               Str(timesync0_plugin_binary_kind))

\* the receiver of plugin_json_kind_end
timesync0_server_end(X, m) ==
    TaskExpect(X, X.ts0_server.original_binary_kind)

\* the receiver of the binary kind plugin_binary_kind
timesync0_server_array(X, m, st0, st1) ==
    IF m.byteLength < TimeArrayBytes
    THEN TaskThrow(TaskRead(X))
    ELSE TaskSend(TaskRead(TaskRead(X)),
                  MeantFor(BinaryData(<<Slot(m, 1), st0, st1, Slot(m, 4)>>, TimeArrayBytes),
                           timesync0_plugin_binary_kind))

timesync0_applyClientPlugin_binary(receivers) ==
    SetReceiver(receivers, timesync0_plugin_binary_kind, "timesync0_client_array")

\* applyClientPlugin: `results`, `original_binary_kind`, `tests_remaining`,
\* `test_resolver` (the promise it resolves, 0 while unassigned)
timesync0_ClientClosure ==
    [original_binary_kind |-> Undefined, results |-> <<>>, tests_remaining |-> 0,
     test_resolver |-> 0]

\* send_time_array(); ct0 is what get_time() returns
send_time_array(X, ct0) ==
    TaskSend(TaskRead(X), MeantFor(BinaryData(<<ct0, 0, 0, 0>>, TimeArrayBytes),
                                   timesync0_plugin_binary_kind))

\* the promise `id` is pending
Pending(calls, id) ==
    \E c \in DOMAIN calls : calls[c].id = id /\ calls[c].state = "pending"

\* the call record of promise `id`
CallOf(calls, id) == calls[CHOOSE c \in DOMAIN calls : calls[c].id = id]

\* the TimesyncFn past `await test_promise`: restoration, discard, statistics
timesync0_resume(X, id, test_results) ==
    LET discard == CallOf(X.ts_calls, id).discard
        kept == SubSeq(test_results, discard + 1, Len(test_results))
        X1 == TaskExpect(X, X.ts0_client.original_binary_kind)
    IN [X1 EXCEPT !.ts_calls = Resolve(@, id, time_arrays_to_stats(kept))]

\* the receiver of the binary kind plugin_binary_kind
timesync0_client_array(X, m, ct1, t2) ==
    IF m.byteLength < TimeArrayBytes
    THEN TaskThrow(TaskRead(X))
    ELSE LET time_array == <<Slot(m, 1), Slot(m, 2), Slot(m, 3), ct1>>
             tests_remaining == X.ts0_client.tests_remaining - 1
             results == Append(X.ts0_client.results, time_array)
             X1 == [TaskRead(X) EXCEPT !.ts0_client.results = results,
                                       !.ts0_client.tests_remaining = tests_remaining]
         IN IF tests_remaining > 0
            THEN send_time_array(X1, t2)
            ELSE LET X2 == TaskSend(X1, JsonMessage(timesync0_plugin_json_kind_end, 0, <<>>))
                     id == X.ts0_client.test_resolver
                 IN IF id = 0 THEN TaskThrow(X2)
                    ELSE LET X3 == [X2 EXCEPT !.ts0_client.results = <<>>]
                         IN IF Pending(X.ts_calls, id)
                            THEN timesync0_resume(X3, id, results)
                            ELSE X3

\* the TimesyncFn applyClientPlugin returns, called with (amount, discard),
\* up to its await; ct0 is what get_time() returns
TimesyncFn0(X, amount, discard, ct0) ==
    LET id == X.made + 1
        X1 == [X EXCEPT !.made = id,
                        !.ts_calls = Append(@, [id |-> id, amount |-> amount,
                                                 discard |-> discard, fn |-> "timesync0",
                                                 state |-> "pending", value |-> <<>>]),
                        !.ts0_client.test_resolver = id,
                        !.ts0_client.original_binary_kind = X.kind,
                        !.ts0_client.tests_remaining = amount]
        X2 == TaskExpect(X1, Str(timesync0_plugin_binary_kind))
        X3 == TaskSend(X2, [JsonMessage(timesync0_plugin_json_kind_init, 0, <<>>)
                               EXCEPT !.amount = amount])
    IN send_time_array(X3, ct0)

(***************************************************************************)
(* plugins/speedtest.ts                                                    *)
(***************************************************************************)
speedtest_CS_json_init == "speedtest_init"

speedtest_SC_json_init_ready == "speedtest_init_ready"

speedtest_CS_json_next_down == "speedtest_next_down"

speedtest_SC_binary_data_down == "speedtest_binary_data_down"

speedtest_CS_binary_data_up == "speedtest_binary_data_up"

speedtest_SC_json_stat_up == "speedtest_stat_up"

speedtest_CS_json_end == "speedtest_end"

\* the timestamp at the front of a data buffer: one 64-bit float
TimestampBytes == 8

\* max(8, message.size): the least size of a downlink buffer
MinDownlinkSize == 8

\* timsync_fn(10, 3)
speedtest_timesync_amount == 10

speedtest_timesync_discard == 3

\* 0 / 0
NaN == Rat(0, 0)

\* a - q, for a number a and an exact quotient q (or undefined)
Minus(a, q) == IF q = Undefined THEN NaN ELSE Rat(a * q.den - q.num, q.den)

\* an applyServerPlugin whose init receiver is added under the kind of the
\* time-sync init message
speedtest_applyServerPlugin_json_pasted(receivers) ==
    SetReceiver(SetReceiver(SetReceiver(receivers,
                    timesync_CS_json_init, "speedtest_server_init"),
                    speedtest_CS_json_next_down, "speedtest_server_next_down"),
                    speedtest_CS_json_end, "speedtest_server_end")

speedtest_applyServerPlugin_json(receivers) ==
    SetReceiver(SetReceiver(SetReceiver(receivers,
                    speedtest_CS_json_init, "speedtest_server_init"),
                    speedtest_CS_json_next_down, "speedtest_server_next_down"),
                    speedtest_CS_json_end, "speedtest_server_end")

speedtest_applyServerPlugin_binary(receivers) ==
    SetReceiver(receivers, speedtest_CS_binary_data_up, "speedtest_server_data_up")

\* applyServerPlugin: `let original_binary_kind: string`
speedtest_ServerClosure == [original_binary_kind |-> Undefined]

\* a receiver of CS_json_init that leaves the expected binary kind alone
speedtest_server_init_no_expect(X, m) ==
    LET X1 == [X EXCEPT !.st_server.original_binary_kind = X.kind]
    IN TaskSend(X1, JsonMessage(speedtest_SC_json_init_ready, 0, <<>>))

\* the receiver of CS_json_init
speedtest_server_init(X, m) ==
    LET X1 == [X EXCEPT !.st_server.original_binary_kind = X.kind]
        X2 == TaskExpect(X1, Str(speedtest_CS_binary_data_up))
    IN TaskSend(X2, JsonMessage(speedtest_SC_json_init_ready, 0, <<>>))

\* a receiver of CS_json_next_down that allocates just the size asked for
speedtest_server_next_down_exact(X, m, t1) ==
    TaskSend(TaskRead(X), MeantFor(BinaryData(<<t1>>, m.size), speedtest_SC_binary_data_down))

\* the receiver of CS_json_next_down: a buffer of max(8, size) bytes with the
\* server's clock in its first eight
speedtest_server_next_down(X, m, t1) ==
    LET size == IF m.size < MinDownlinkSize THEN MinDownlinkSize ELSE m.size
    IN TaskSend(TaskRead(X), MeantFor(BinaryData(<<t1>>, size), speedtest_SC_binary_data_down))

\* the receiver of CS_json_end
speedtest_server_end(X, m) ==
    TaskExpect(X, X.st_server.original_binary_kind)

\* a receiver of CS_binary_data_up that also restores the expected binary
\* kind, as the receiver of the end message does
speedtest_server_data_up_restores(X, m, t1) ==
    IF m.byteLength < TimestampBytes
    THEN TaskThrow(TaskRead(X))
    ELSE TaskExpect(TaskSend(TaskRead(X),
                             JsonMessage(speedtest_SC_json_stat_up, m.byteLength,
                                         <<Slot(m, 1), t1>>)),
                    X.st_server.original_binary_kind)

\* the receiver of the binary kind CS_binary_data_up
speedtest_server_data_up(X, m, t1) ==
    LET server_receive_time == t1
        size == m.byteLength
    IN IF m.byteLength < TimestampBytes
       THEN TaskThrow(TaskRead(X))
       ELSE LET client_sent_time == Slot(m, 1)
            IN TaskSend(TaskRead(X),
                        JsonMessage(speedtest_SC_json_stat_up, size,
                                    <<client_sent_time, server_receive_time>>))

speedtest_applyClientPlugin_json(receivers) ==
    SetReceiver(SetReceiver(receivers,
                    speedtest_SC_json_init_ready, "speedtest_client_init_ready"),
                    speedtest_SC_json_stat_up, "speedtest_client_stat_up")

speedtest_applyClientPlugin_binary(receivers) ==
    SetReceiver(receivers, speedtest_SC_binary_data_down, "speedtest_client_data_down")

\* no generator has been assigned to executeNextTest
speedtest_NoGenerator == [state |-> "undefined", pattern |-> <<>>, i |-> 0, call |-> 0]

\* applyClientPlugin(sock, time_fn, timsync_fn): the parameter timsync_fn and
\* `original_binary_kind`, `executeNextTest`, the two offsets, `results`
speedtest_ClientClosure(timsync_fn) ==
    [timsync_fn |-> timsync_fn,
     original_binary_kind |-> Undefined,
     executeNextTest |-> speedtest_NoGenerator,
     serverUplinkOffsetTime |-> Undefined,
     serverDownlinkOffsetTime |-> Undefined,
     results |-> <<>>]

\* resolve(value) of a speed-test promise
speedtest_Settle(calls, id, state, value) ==
    [c \in DOMAIN calls |->
        IF calls[c].id = id /\ calls[c].state = "pending"
        THEN [calls[c] EXCEPT !.state = state, !.value = value, !.awaits = 0]
        ELSE calls[c]]

\* executeNextTest.next(): the generator runs to its next yield, to its end,
\* or to the RangeError of buf.set on a buffer shorter than the timestamp;
\* t is what get_time() returns if it is read
speedtest_executeNextTest(X, t) ==
    LET g == X.st_client.executeNextTest
        i == g.i + 1
    IN IF g.state = "undefined" THEN TaskThrow(X)
       ELSE IF g.state = "completed" THEN X
       ELSE IF i <= Len(g.pattern)
       THEN LET mode == g.pattern[i].mode
                size == g.pattern[i].size
                X1 == [X EXCEPT !.st_client.executeNextTest.state = "suspendedYield",
                                !.st_client.executeNextTest.i = i]
            IN IF mode = "down"
               THEN TaskSend(X1, JsonMessage(speedtest_CS_json_next_down, size, <<>>))
               ELSE IF size < TimestampBytes
               THEN TaskThrow(TaskRead(
                        [X1 EXCEPT !.st_client.executeNextTest.state = "completed"]))
               ELSE TaskSend(TaskRead(X1),
                             MeantFor(BinaryData(<<t>>, size), speedtest_CS_binary_data_up))
       ELSE LET X1 == TaskExpect(X, X.st_client.original_binary_kind)
            IN [X1 EXCEPT !.st_calls = speedtest_Settle(@, g.call, "resolved",
                                                        X.st_client.results),
                          !.st_client.executeNextTest.state = "completed",
                          !.st_client.executeNextTest.i = i]

\* a receiver of SC_json_init_ready that starts two sub-tests at once
speedtest_client_init_ready_twice(X, m, t1) ==
    speedtest_executeNextTest(speedtest_executeNextTest(X, t1), t1)

\* the receiver of SC_json_init_ready
speedtest_client_init_ready(X, m, t1) ==
    speedtest_executeNextTest(X, t1)

\* the receiver of SC_json_stat_up
speedtest_client_stat_up(X, m, t1) ==
    LET size == m.size
        client_sent_time == m.time[1]
        server_receive_time == m.time[2]
        delta_time == Minus(server_receive_time - client_sent_time,
                            X.st_client.serverUplinkOffsetTime)
        X1 == [X EXCEPT !.st_client.results =
                   Append(@, [mode |-> "up", size |-> size, time |-> delta_time])]
    IN speedtest_executeNextTest(X1, t1)

\* a receiver of SC_binary_data_down that adds the downlink offset to its
\* clock reading instead of taking it off
speedtest_client_data_down_plus(X, m, t1, t2) ==
    IF m.byteLength < TimestampBytes
    THEN TaskThrow(TaskRead(X))
    ELSE LET offset == X.st_client.serverDownlinkOffsetTime
             delta_time == IF offset = Undefined THEN NaN
                           ELSE Rat((t1 - Slot(m, 1)) * offset.den + offset.num, offset.den)
             X1 == [TaskRead(X) EXCEPT !.st_client.results =
                        Append(@, [mode |-> "down", size |-> m.byteLength,
                                   time |-> delta_time])]
         IN speedtest_executeNextTest(X1, t2)

\* the receiver of the binary kind SC_binary_data_down
speedtest_client_data_down(X, m, t1, t2) ==
    LET client_receive_time == t1
        size == m.byteLength
    IN IF m.byteLength < TimestampBytes
       THEN TaskThrow(TaskRead(X))
       ELSE LET server_sent_time == Slot(m, 1)
                delta_time == Minus(client_receive_time - server_sent_time,
                                    X.st_client.serverDownlinkOffsetTime)
                X1 == [TaskRead(X) EXCEPT !.st_client.results =
                           Append(@, [mode |-> "down", size |-> size, time |-> delta_time])]
            IN speedtest_executeNextTest(X1, t2)

\* the function applyClientPlugin returns, up to its await; t1 is what
\* get_time() returns if timsync_fn reads it
SpeedtestFn(X, t1) ==
    LET X1 == IF X.st_client.timsync_fn = "timesync0"
              THEN TimesyncFn0(X, speedtest_timesync_amount, speedtest_timesync_discard, t1)
              ELSE TimesyncFn(X, speedtest_timesync_amount)
        id == X1.made + 1
    IN [X1 EXCEPT !.made = id,
                  !.st_calls = Append(@, [id |-> id, state |-> "pending", awaits |-> X1.made,
                                          pattern |-> <<>>, value |-> <<>>])]

\* the speed-test calls whose awaited timsync_fn promise has resolved
speedtest_Resumable(X) ==
    {c \in DOMAIN X.st_calls :
        /\ X.st_calls[c].state = "pending"
        /\ X.st_calls[c].awaits # 0
        /\ CallOf(X.ts_calls, X.st_calls[c].awaits).state = "resolved"}

\* the function applyClientPlugin returns, past its await, for the call at c
\* of st_calls: the destructuring of what timsync_fn resolved with throws
\* unless that is an array whose first member is itself an array; test_pattern
\* is first read here
speedtest_resume(X, c, test_pattern) ==
    LET call == X.st_calls[c]
        awaited == CallOf(X.ts_calls, call.awaits)
    IN IF awaited.fn # "timesync0"
       THEN [X EXCEPT !.st_calls = speedtest_Settle(@, call.id, "rejected", <<>>)]
       ELSE LET X1 == [X EXCEPT !.st_client.serverUplinkOffsetTime =
                                     awaited.value.mean_stats[1],
                                 !.st_client.serverDownlinkOffsetTime =
                                     awaited.value.mean_stats[2],
                                 !.st_client.results = <<>>,
                                 !.st_client.executeNextTest =
                                     [state |-> "suspendedStart", pattern |-> test_pattern,
                                      i |-> 0, call |-> call.id],
                                 !.st_calls[c].awaits = 0,
                                 !.st_calls[c].pattern = test_pattern,
                                 !.readPattern = TRUE]
                X2 == TaskExpect(X1, Str(speedtest_SC_binary_data_down))
            IN TaskSend(X2, [JsonMessage(speedtest_CS_json_init, 0, <<>>)
                                EXCEPT !.numberOfTests = Len(test_pattern)])

\* the microtasks a task leaves: a speed-test call whose timsync_fn promise
\* resolved in the task goes on
Microtasks(X, test_pattern) ==
    IF speedtest_Resumable(X) = {} THEN X
    ELSE speedtest_resume(X, CHOOSE c \in speedtest_Resumable(X) : TRUE, test_pattern)

(***************************************************************************)
(* Tasks that run plugin code.                                             *)
(***************************************************************************)
\* the sub-tests and the patterns the application asks for
SingleTests == {[mode |-> mode, size |-> size] : mode \in {"down", "up"}, size \in TestSizes}

Patterns == UNION {[1..k -> SingleTests] : k \in 0..MaxTests}

PluginHandlers ==
    {"timesync_server_init", "timesync_server_end", "timesync_server_ct0",
     "timesync_client_init_ready", "timesync_client_ct0st0st1",
     "timesync0_server_init", "timesync0_server_end", "timesync0_server_array",
     "timesync0_client_array",
     "speedtest_server_init", "speedtest_server_next_down", "speedtest_server_end",
     "speedtest_server_data_up", "speedtest_client_init_ready",
     "speedtest_client_stat_up", "speedtest_client_data_down"}

\* the registered function fn called with (sock, m); t1 and t2 are what the
\* first and the second get_time() of the task return
CallReceiver(e, m, fn, t1, t2) ==
    CASE fn = "timesync_server_init" -> timesync_server_init(Task(e), m)
      [] fn = "timesync_server_end" -> timesync_server_end(Task(e), m)
      [] fn = "timesync_server_ct0" -> timesync_server_ct0(Task(e), m, t1, t2)
      [] fn = "timesync_client_init_ready" -> timesync_client_init_ready(Task(e), m, t1)
      [] fn = "timesync_client_ct0st0st1" -> timesync_client_ct0st0st1(Task(e), m, t1, t2)
      [] fn = "timesync0_server_init" -> timesync0_server_init(Task(e), m)
      [] fn = "timesync0_server_end" -> timesync0_server_end(Task(e), m)
      [] fn = "timesync0_server_array" -> timesync0_server_array(Task(e), m, t1, t2)
      [] fn = "timesync0_client_array" -> timesync0_client_array(Task(e), m, t1, t2)
      [] fn = "speedtest_server_init" -> speedtest_server_init(Task(e), m)
      [] fn = "speedtest_server_next_down" -> speedtest_server_next_down(Task(e), m, t1)
      [] fn = "speedtest_server_end" -> speedtest_server_end(Task(e), m)
      [] fn = "speedtest_server_data_up" -> speedtest_server_data_up(Task(e), m, t1)
      [] fn = "speedtest_client_init_ready" -> speedtest_client_init_ready(Task(e), m, t1)
      [] fn = "speedtest_client_stat_up" -> speedtest_client_stat_up(Task(e), m, t1)
      [] fn = "speedtest_client_data_down" -> speedtest_client_data_down(Task(e), m, t1, t2)
      [] OTHER -> Task(e)

\* what a finished task leaves behind, apart from the frames it sent and
\* the count of promises
TaskDone(e, X) ==
    /\ binaryReceiverNextKind' = [binaryReceiverNextKind EXCEPT ![e] = X.kind]
    /\ ts_server' = X.ts_server
    /\ ts_client' = X.ts_client
    /\ ts_calls' = X.ts_calls
    /\ ts0_server' = X.ts0_server
    /\ ts0_client' = X.ts0_client
    /\ st_server' = X.st_server
    /\ st_client' = X.st_client
    /\ st_calls' = X.st_calls
    /\ UNCHANGED <<connVars, jsonReceivers, binaryReceivers, clockSkew, timeCap, testCap,
                   pureCall, sockCall>>

\* the receivers of the init messages of the three server plugins
InitReceivers == {"timesync_server_init", "timesync0_server_init", "speedtest_server_init"}

\* what a finished task of the receiver fn leaves behind; the history keeps
\* the expected binary kind an init message found at the server
Commit(e, fn, X) ==
    /\ TaskDone(e, X)
    /\ callStart' = [callStart EXCEPT
                        !.promises = X.made,
                        !.atInit = IF fn \in InitReceivers
                                   THEN binaryReceiverNextKind[e] ELSE @]

\* real time passes by d1 before the first clock read of a task and by d2
\* between its first and its second
Elapse(X, d1, d2) ==
    /\ now + d1 + d2 <= timeCap
    /\ X.reads < 1 => d1 = 0
    /\ X.reads < 2 => d2 = 0
    /\ now' = now + d1 + d2

\* the end of the task in which a receiver of a plugin handled message m
ReceiverDone(e, m, fn, X, d1, d2) ==
    /\ Elapse(X, d1, d2)
    /\ Consume(e, X.out)
    /\ IF X.readPattern THEN LogAfresh(e, X.out) ELSE Log(e, X.out)
    /\ Record(e, m, <<fn>>, X.threw)
    /\ Commit(e, fn, X)

\* a receiver of a plugin handles message m; the test pattern of a speed-test
\* call that goes on in the task is drawn when it is first read
PluginReceiver(e, m, fn) ==
    \E d1 \in 0..1, d2 \in 0..1 :
        LET X == CallReceiver(e, m, fn, get_time(e, now + d1), get_time(e, now + d1 + d2)) IN
        IF speedtest_Resumable(X) = {}
        THEN ReceiverDone(e, m, fn, X, d1, d2)
        ELSE \E test_pattern \in {pattern \in Patterns : Len(pattern) <= testCap} :
                 ReceiverDone(e, m, fn, Microtasks(X, test_pattern), d1, d2)

\* the body of the "message" listener the constructor adds
MessageListener(e, m) ==
    LET t == Target(e, m) IN
    IF ~t.callable THEN ThrowNotAFunction(e, m)
    ELSE IF ~t.registered THEN CallInherited(e, m, t.fn)
    ELSE IF t.fn \in PluginHandlers THEN PluginReceiver(e, m, t.fn)
    ELSE AppHandler(e, m, t.fn)

\* the socket of e dispatches a "message" event for the next frame; with no
\* Sock constructed yet nothing listens and the frame is gone
MessageEvent(e) ==
    /\ inbox[e] # <<>>
    /\ IF sockSocket[e] = "none"
       THEN /\ inbox' = [inbox EXCEPT ![e] = Tail(@)]
            /\ UNCHANGED <<sentLog, lastEvent, connVars, sockVars, pluginVars>>
       ELSE MessageListener(e, Head(inbox[e]))

(***************************************************************************)
(* The dispatcher specification: the client's socket in any readyState,    *)
(* the application creating a Sock on it, registering handlers and setting *)
(* the expected binary kind, and the peer (whose Sock exists) sending text *)
(* and binary messages of any kind.                                        *)
(***************************************************************************)
\* no protocol call has been made
NoCall ==
    [n |-> 0, promises |-> 0, client |-> Undefined, server |-> Undefined, quiet |-> TRUE,
     lost |-> {}, atInit |-> Undefined]

\* the closure variables right after the plugins were applied; timsync_fn is
\* the TimesyncFn the speed-test client plugin was given
ClosuresInitial(timsync_fn) ==
    /\ ts_server = timesync_ServerClosure
    /\ ts_client = timesync_ClientClosure
    /\ ts_calls = <<>>
    /\ ts0_server = timesync0_ServerClosure
    /\ ts0_client = timesync0_ClientClosure
    /\ st_server = speedtest_ServerClosure
    /\ st_client = speedtest_ClientClosure(timsync_fn)
    /\ st_calls = <<>>

\* no pure function is being called
NoPureCall == [fn |-> "", arg |-> <<>>, ret |-> <<>>]

\* no method of the client's Sock has been called
NoSockCall == [fn |-> "", arg |-> <<>>, ret |-> <<>>, nth |-> 0]

\* no plugin is applied, and the clock is not read
PluginsNotApplied ==
    /\ now = 0
    /\ clockSkew = 0
    /\ timeCap = 0
    /\ testCap = 0
    /\ ClosuresInitial("timesync")
    /\ callStart = NoCall
    /\ pureCall = NoPureCall
    /\ sockCall = NoSockCall

Init ==
    /\ readyState \in {r \in [Endpoints -> {"CONNECTING", "OPEN", "CLOSING", "CLOSED"}] :
                          r["server"] = "OPEN"}
    /\ createState = [e \in Endpoints |-> IF e = "server" THEN "resolved" ELSE "idle"]
    /\ openListener = [e \in Endpoints |-> FALSE]
    /\ sockSocket = [e \in Endpoints |-> IF e = "server" THEN "server" ELSE "none"]
    /\ jsonReceivers = [e \in Endpoints |-> EmptyReceivers]
    /\ binaryReceivers = [e \in Endpoints |-> EmptyReceivers]
    /\ binaryReceiverNextKind = [e \in Endpoints |-> Undefined]
    /\ inbox = [e \in Endpoints |-> <<>>]
    /\ sentLog = [e \in Endpoints |-> <<>>]
    /\ lastEvent = [e \in Endpoints |-> NoEvent]
    /\ PluginsNotApplied

ClientCreate == Create("client")

ClientSocketOpen == SocketOpen("client")

ClientSocketFail == SocketFail("client")

ClientAddJsonReceiver ==
    /\ \E kind \in AppKinds, handler \in AppHandlers :
          addJsonReceiver("client", kind, handler)
    /\ UNCHANGED sockCall

ClientAddBinaryReceiver ==
    /\ \E kind \in AppKinds, handler \in AppHandlers :
          addBinaryReceiver("client", kind, handler)
    /\ UNCHANGED sockCall

ClientExpectBinaryKind ==
    /\ \E kind \in AnyKinds : expectBinaryKind("client", kind)
    /\ UNCHANGED sockCall

\* the peer can send once the connection is open
PeerMaySend ==
    /\ readyState["client"] = "OPEN"
    /\ Len(inbox["client"]) < MaxQueue

PeerSendJson ==
    /\ PeerMaySend
    /\ \E kind \in AnyKinds : sendJson("server", JsonMessage(kind, 0, <<>>))
    /\ UNCHANGED <<sentLog, sockCall>>

PeerSendBinary ==
    /\ PeerMaySend
    /\ \E data \in AppPayloads : sendBinary("server", BinaryData(data, 8))
    /\ UNCHANGED <<sentLog, sockCall>>

ClientMessageEvent == MessageEvent("client")

Next ==
    \/ ClientCreate
    \/ ClientSocketOpen
    \/ ClientSocketFail
    \/ ClientAddJsonReceiver
    \/ ClientAddBinaryReceiver
    \/ ClientExpectBinaryKind
    \/ PeerSendJson
    \/ PeerSendBinary
    \/ ClientMessageEvent

Spec == Init /\ [][Next]_vars

(***************************************************************************)
(* The time-sync specification: both Socks exist on an open connection,    *)
(* the server plugin is applied to the server's and the client plugin to   *)
(* the client's, each endpoint's expected binary kind is whatever the      *)
(* application left there, and the application calls the TimesyncFn, one   *)
(* call after the other.                                                   *)
(***************************************************************************)
\* values of the expected binary kind the application may have left
PriorKinds == {Undefined, Str("k1")}

SocksCreated ==
    /\ readyState = [e \in Endpoints |-> "OPEN"]
    /\ createState = [e \in Endpoints |-> "resolved"]
    /\ openListener = [e \in Endpoints |-> FALSE]
    /\ sockSocket = [e \in Endpoints |-> e]
    /\ inbox = [e \in Endpoints |-> <<>>]
    /\ sentLog = [e \in Endpoints |-> <<>>]
    /\ lastEvent = [e \in Endpoints |-> NoEvent]

InitTimesync ==
    /\ SocksCreated
    /\ jsonReceivers =
           [e \in Endpoints |-> IF e = "server"
                                THEN timesync_applyServerPlugin_json(EmptyReceivers)
                                ELSE timesync_applyClientPlugin_json(EmptyReceivers)]
    /\ binaryReceivers =
           [e \in Endpoints |-> IF e = "server"
                                THEN timesync_applyServerPlugin_binary(EmptyReceivers)
                                ELSE timesync_applyClientPlugin_binary(EmptyReceivers)]
    /\ binaryReceiverNextKind \in [Endpoints -> PriorKinds]
    /\ now = 0
    /\ clockSkew \in ClockSkews
    /\ timeCap = MaxTime
    /\ testCap = 0
    /\ ClosuresInitial("timesync")
    /\ callStart = NoCall
    /\ pureCall = NoPureCall
    /\ sockCall = NoSockCall

\* every call made so far has settled
AllSettled == \A c \in DOMAIN ts_calls : ts_calls[c].state # "pending"

\* a task of the application on the client; it has let go of the promises
\* that have settled
AppTask ==
    [Task("client") EXCEPT !.ts_calls = SelectSeq(@, LAMBDA p : p.state = "pending"),
                           !.st_calls = SelectSeq(@, LAMBDA p : p.state = "pending")]

\* the application calls the TimesyncFn; the history of sent frames starts
\* afresh with the call
TimesyncCall ==
    /\ callStart.n < MaxCalls
    /\ AllSettled
    /\ \E amount \in 0..MaxRounds :
           LET X == TimesyncFn(AppTask, amount) IN
           /\ Send("client", X.out)
           /\ LogAfresh("client", X.out)
           /\ TaskDone("client", X)
           /\ callStart' = [n |-> callStart.n + 1,
                            promises |-> X.made,
                            client |-> binaryReceiverNextKind["client"],
                            server |-> binaryReceiverNextKind["server"],
                            quiet |-> inbox["server"] = <<>>,
                            lost |-> callStart.lost, atInit |-> callStart.atInit]
           /\ UNCHANGED <<now, lastEvent>>

ServerMessageEvent == MessageEvent("server")

NextTimesync ==
    \/ TimesyncCall
    \/ ClientMessageEvent
    \/ ServerMessageEvent

SpecTimesync == InitTimesync /\ [][NextTimesync]_vars

(***************************************************************************)
(* The speed-test specification: both Socks exist on an open connection;   *)
(* the time-sync and the speed-test server plugins are applied to the      *)
(* server's, the client plugins to the client's, the speed-test client     *)
(* plugin being given the TimesyncFn of the time-sync client plugin.  The  *)
(* time-sync plugin is plugins/timesync.ts or the earlier one.  The        *)
(* application calls the speed-test function.                              *)
(***************************************************************************)
TimesyncPlugins == {"timesync", "timesync0"}

\* the receivers after the plugins were applied to the sock of endpoint e
PluginJsonReceivers(e, plugin) ==
    IF e = "server"
    THEN speedtest_applyServerPlugin_json(
             IF plugin = "timesync0"
             THEN timesync0_applyServerPlugin_json(EmptyReceivers)
             ELSE timesync_applyServerPlugin_json(EmptyReceivers))
    ELSE speedtest_applyClientPlugin_json(
             IF plugin = "timesync0"
             THEN EmptyReceivers
             ELSE timesync_applyClientPlugin_json(EmptyReceivers))

PluginBinaryReceivers(e, plugin) ==
    IF e = "server"
    THEN speedtest_applyServerPlugin_binary(
             IF plugin = "timesync0"
             THEN timesync0_applyServerPlugin_binary(EmptyReceivers)
             ELSE timesync_applyServerPlugin_binary(EmptyReceivers))
    ELSE speedtest_applyClientPlugin_binary(
             IF plugin = "timesync0"
             THEN timesync0_applyClientPlugin_binary(EmptyReceivers)
             ELSE timesync_applyClientPlugin_binary(EmptyReceivers))

InitSpeedtest ==
    /\ SocksCreated
    /\ \E plugin \in TimesyncPlugins :
          /\ jsonReceivers = [e \in Endpoints |-> PluginJsonReceivers(e, plugin)]
          /\ binaryReceivers = [e \in Endpoints |-> PluginBinaryReceivers(e, plugin)]
          /\ ClosuresInitial(plugin)
    /\ binaryReceiverNextKind \in [Endpoints -> PriorKinds]
    /\ now = 0
    /\ clockSkew \in {skew \in ClockSkews : skew > 0}
    /\ timeCap = MaxSpeedtestTime
    /\ testCap = MaxTests
    /\ callStart = NoCall
    /\ pureCall = NoPureCall
    /\ sockCall = NoSockCall

\* the application calls the speed-test function; the history of sent
\* frames starts afresh with the call
SpeedtestCall ==
    /\ callStart.n < MaxSpeedtestCalls
    /\ AllSettled
    /\ \A c \in DOMAIN st_calls : st_calls[c].state # "pending"
    /\ \E d1 \in 0..1 :
           LET X == SpeedtestFn(AppTask, get_time("client", now + d1)) IN
           /\ Elapse(X, d1, 0)
           /\ Send("client", X.out)
           /\ LogAfresh("client", X.out)
           /\ TaskDone("client", X)
           /\ callStart' = [n |-> callStart.n + 1,
                            promises |-> X.made,
                            client |-> binaryReceiverNextKind["client"],
                            server |-> binaryReceiverNextKind["server"],
                            quiet |-> inbox["server"] = <<>>,
                            lost |-> callStart.lost, atInit |-> callStart.atInit]
           /\ UNCHANGED lastEvent

NextSpeedtest ==
    \/ SpeedtestCall
    \/ ClientMessageEvent
    \/ ServerMessageEvent

SpecSpeedtest == InitSpeedtest /\ [][NextSpeedtest]_vars

(***************************************************************************)
(* The specification of the single sub-tests: the speed-test set-up with   *)
(* short patterns.                                                         *)
(***************************************************************************)
InitSubtest ==
    /\ SocksCreated
    /\ \E plugin \in TimesyncPlugins :
          /\ jsonReceivers = [e \in Endpoints |-> PluginJsonReceivers(e, plugin)]
          /\ binaryReceivers = [e \in Endpoints |-> PluginBinaryReceivers(e, plugin)]
          /\ ClosuresInitial(plugin)
    /\ binaryReceiverNextKind \in [Endpoints -> PriorKinds]
    /\ now = 0
    /\ clockSkew \in {skew \in ClockSkews : skew > 0}
    /\ timeCap = MaxSubtestTime
    /\ testCap = MaxSubtests
    /\ callStart = NoCall
    /\ pureCall = NoPureCall
    /\ sockCall = NoSockCall

\* the application calls the speed-test function, once
SubtestCall ==
    /\ callStart.n = 0
    /\ SpeedtestCall

NextSubtest ==
    \/ SubtestCall
    \/ ClientMessageEvent
    \/ ServerMessageEvent

SpecSubtest == InitSubtest /\ [][NextSubtest]_vars

(***************************************************************************)
(* The lossy specification: the speed-test set-up over a connection that   *)
(* may lose what the server sends.  The clock stands still.  The           *)
(* application calls the speed test again once a reply was lost and         *)
(* nothing is in flight.                                                   *)
(***************************************************************************)
InitLossy ==
    /\ SocksCreated
    /\ \E plugin \in TimesyncPlugins :
          /\ jsonReceivers = [e \in Endpoints |-> PluginJsonReceivers(e, plugin)]
          /\ binaryReceivers = [e \in Endpoints |-> PluginBinaryReceivers(e, plugin)]
          /\ ClosuresInitial(plugin)
    /\ binaryReceiverNextKind = [e \in Endpoints |-> Undefined]
    /\ now = 0
    /\ clockSkew \in {skew \in ClockSkews : skew > 0}
    /\ timeCap = 0
    /\ testCap = MaxLossyTests
    /\ callStart = NoCall
    /\ pureCall = NoPureCall
    /\ sockCall = NoSockCall

\* nothing is on its way to either endpoint
NothingInFlight == \A e \in Endpoints : inbox[e] = <<>>

\* the promises of the protocol calls that are pending
PendingIds ==
    {ts_calls[c].id : c \in {c \in DOMAIN ts_calls : ts_calls[c].state = "pending"}}
    \cup {st_calls[c].id : c \in {c \in DOMAIN st_calls : st_calls[c].state = "pending"}}

\* the application calls the speed-test function
LossyCallTask ==
    LET X == SpeedtestFn(AppTask, get_time("client", now)) IN
    /\ Send("client", X.out)
    /\ LogAfresh("client", X.out)
    /\ TaskDone("client", X)
    /\ callStart' = [n |-> callStart.n + 1,
                     promises |-> X.made,
                     client |-> binaryReceiverNextKind["client"],
                     server |-> binaryReceiverNextKind["server"],
                     quiet |-> TRUE,
                     lost |-> callStart.lost, atInit |-> callStart.atInit]
    /\ UNCHANGED <<now, lastEvent>>

\* the first call
LossyCall ==
    /\ callStart.n = 0
    /\ LossyCallTask

\* the application calls once more after a reply was lost and the first
\* call has come to a halt, settled or not
LossyCallAgain ==
    /\ callStart.n = 1
    /\ callStart.lost # {}
    /\ NothingInFlight
    /\ LossyCallTask

\* the connection loses the next frame on its way to the client
LoseReply ==
    /\ inbox["client"] # <<>>
    /\ inbox' = [inbox EXCEPT !["client"] = Tail(@)]
    /\ callStart' = [callStart EXCEPT !.lost = @ \cup PendingIds]
    /\ UNCHANGED <<sentLog, lastEvent, connVars, sockVars, now, clockSkew, timeCap,
                   testCap, closureVars, pureCall, sockCall>>

NextLossy ==
    \/ LossyCall
    \/ LossyCallAgain
    \/ LoseReply
    \/ ClientMessageEvent
    \/ ServerMessageEvent

SpecLossy == InitLossy /\ [][NextLossy]_vars

(***************************************************************************)
(* The serial specification: both protocols over a connection that loses   *)
(* nothing; the application makes its calls, of the TimesyncFn and of the  *)
(* speed-test function in any order, each once every call before has       *)
(* resolved.  The clock stands still.                                      *)
(***************************************************************************)
InitSerial ==
    /\ SocksCreated
    /\ \E plugin \in TimesyncPlugins :
          /\ jsonReceivers = [e \in Endpoints |-> PluginJsonReceivers(e, plugin)]
          /\ binaryReceivers = [e \in Endpoints |-> PluginBinaryReceivers(e, plugin)]
          /\ ClosuresInitial(plugin)
    /\ binaryReceiverNextKind \in [Endpoints -> PriorKinds]
    /\ now = 0
    /\ clockSkew \in {skew \in ClockSkews : skew > 0}
    /\ timeCap = 0
    /\ testCap = MaxSerialTests
    /\ callStart = NoCall
    /\ pureCall = NoPureCall
    /\ sockCall = NoSockCall

\* every call made so far has resolved
AllResolved ==
    /\ \A c \in DOMAIN ts_calls : ts_calls[c].state = "resolved"
    /\ \A c \in DOMAIN st_calls : st_calls[c].state = "resolved"

\* the task of the application in which it made the call ends
SerialCallTask(X) ==
    /\ Send("client", X.out)
    /\ LogAfresh("client", X.out)
    /\ TaskDone("client", X)
    /\ callStart' = [n |-> callStart.n + 1,
                     promises |-> X.made,
                     client |-> binaryReceiverNextKind["client"],
                     server |-> binaryReceiverNextKind["server"],
                     quiet |-> inbox["server"] = <<>>,
                     lost |-> callStart.lost, atInit |-> callStart.atInit]
    /\ UNCHANGED <<now, lastEvent>>

\* the application calls the TimesyncFn of the plugin that is applied
SerialTimesyncCall ==
    /\ callStart.n < MaxSerialCalls
    /\ AllResolved
    /\ \E amount \in 0..MaxRounds :
          SerialCallTask(IF st_client.timsync_fn = "timesync0"
                         THEN TimesyncFn0(AppTask, amount, 0, get_time("client", now))
                         ELSE TimesyncFn(AppTask, amount))

\* the application calls the speed-test function
SerialSpeedtestCall ==
    /\ callStart.n < MaxSerialCalls
    /\ AllResolved
    /\ SerialCallTask(SpeedtestFn(AppTask, get_time("client", now)))

NextSerial ==
    \/ SerialTimesyncCall
    \/ SerialSpeedtestCall
    \/ ClientMessageEvent
    \/ ServerMessageEvent

SpecSerial == InitSerial /\ [][NextSerial]_vars

(***************************************************************************)
(* The specifications of the Sock's methods: both Socks exist on an open   *)
(* connection and no plugin is applied; the application calls the methods  *)
(* of the client's Sock, and sockCall keeps the latest call: the method,   *)
(* its arguments, what it returned, and the parity of the number of calls. *)
(***************************************************************************)
SockCall(fn, arg, ret) ==
    [fn |-> fn, arg |-> arg, ret |-> ret, nth |-> 1 - sockCall.nth]

InitSock ==
    /\ SocksCreated
    /\ jsonReceivers = [e \in Endpoints |-> EmptyReceivers]
    /\ binaryReceivers = [e \in Endpoints |-> EmptyReceivers]
    /\ binaryReceiverNextKind = [e \in Endpoints |-> Undefined]
    /\ PluginsNotApplied

\* the receivers specification: handlers are registered, also over earlier
\* ones, while the peer sends text messages
AppAddJsonReceiver ==
    \E kind \in AppKinds, handler \in AppHandlers :
        /\ addJsonReceiver("client", kind, handler)
        /\ sockCall' = SockCall("addJsonReceiver", <<kind, handler>>, <<>>)

AppAddBinaryReceiver ==
    \E kind \in AppKinds, handler \in AppHandlers :
        /\ addBinaryReceiver("client", kind, handler)
        /\ sockCall' = SockCall("addBinaryReceiver", <<kind, handler>>, <<>>)

NextReceivers ==
    \/ AppAddJsonReceiver
    \/ AppAddBinaryReceiver
    \/ PeerSendJson
    \/ ClientMessageEvent

SpecReceivers == InitSock /\ [][NextReceivers]_vars

\* the calls specification: every method is called, with one handler to
\* register, and the server takes the frames the client sends
AppAddOneJsonReceiver ==
    \E kind \in AppKinds :
        /\ addJsonReceiver("client", kind, "hA")
        /\ sockCall' = SockCall("addJsonReceiver", <<kind, "hA">>, <<>>)

AppAddOneBinaryReceiver ==
    \E kind \in AppKinds :
        /\ addBinaryReceiver("client", kind, "hA")
        /\ sockCall' = SockCall("addBinaryReceiver", <<kind, "hA">>, <<>>)

AppExpectBinaryKind ==
    \E kind \in AnyKinds :
        /\ expectBinaryKind("client", kind)
        /\ sockCall' = SockCall("expectBinaryKind", <<kind>>, <<>>)

AppGetBinaryKind ==
    /\ sockSocket["client"] # "none"
    /\ sockCall' = SockCall("getBinaryKind", <<>>, <<getBinaryKind("client")>>)
    /\ UNCHANGED <<connVars, sockVars, netVars, lastEvent, protocolVars>>

AppMaySend == Len(inbox["server"]) < MaxQueue

AppSendJson ==
    /\ AppMaySend
    /\ \E kind \in AppKinds :
          LET message == JsonMessage(kind, 0, <<>>) IN
          /\ sendJson("client", message)
          /\ sockCall' = SockCall("sendJson", <<message>>, <<>>)
    /\ UNCHANGED sentLog

AppSendBinary ==
    /\ AppMaySend
    /\ \E data \in AppPayloads :
          LET buffer == BinaryData(data, 8) IN
          /\ sendBinary("client", buffer)
          /\ sockCall' = SockCall("sendBinary", <<buffer>>, <<>>)
    /\ UNCHANGED sentLog

NextCalls ==
    \/ AppAddOneJsonReceiver
    \/ AppAddOneBinaryReceiver
    \/ AppExpectBinaryKind
    \/ AppGetBinaryKind
    \/ AppSendJson
    \/ AppSendBinary
    \/ ServerMessageEvent

SpecCalls == InitSock /\ [][NextCalls]_vars

(***************************************************************************)
(* deps.ts: computeMean.  Numbers are exact quotients [num, den] in lowest *)
(* terms with den > 0; NaN is 0/0; a square root that is no quotient is    *)
(* kept as [radicand].                                                     *)
(***************************************************************************)
Abs(a) == IF a < 0 THEN 0 - a ELSE a

RECURSIVE Gcd(_, _)
Gcd(a, b) == IF b = 0 THEN a ELSE Gcd(b, a % b)

\* num / den
Quotient(num, den) ==
    IF den = 0 THEN IF num = 0 THEN NaN ELSE Rat(IF num > 0 THEN 1 ELSE -1, 0)
    ELSE LET g == Gcd(Abs(num), Abs(den))
             sign == IF den < 0 THEN -1 ELSE 1
         IN Rat(sign * (num \div g), sign * (den \div g))

IsNaN(q) == q.num = 0 /\ q.den = 0

\* sub(arr, value): arr[k] - value, for numbers arr[k] and a quotient value
sub(arr, value) ==
    [k \in DOMAIN arr |->
        IF IsNaN(value) THEN NaN
        ELSE Quotient(arr[k] * value.den - value.num, value.den)]

\* pow(arr, 2): the square of every quotient of arr
pow2(arr) ==
    [k \in DOMAIN arr |->
        IF IsNaN(arr[k]) THEN NaN ELSE Quotient(arr[k].num * arr[k].num, arr[k].den * arr[k].den)]

\* sum(arr) of quotients
RECURSIVE sumQ(_)
sumQ(arr) ==
    IF arr = <<>> THEN Quotient(0, 1)
    ELSE LET a == Head(arr)
             b == sumQ(Tail(arr))
         IN IF IsNaN(a) \/ IsNaN(b) THEN NaN
            ELSE Quotient(a.num * b.den + b.num * a.den, a.den * b.den)

\* the largest r with r * r <= n
RECURSIVE Isqrt(_, _)
Isqrt(n, r) == IF (r + 1) * (r + 1) > n THEN r ELSE Isqrt(n, r + 1)

IsSquare(n) == Isqrt(n, 0) * Isqrt(n, 0) = n

\* q ** 0.5
Sqrt(q) ==
    IF IsNaN(q) \/ q.num < 0 THEN NaN
    ELSE IF q.den = 0 THEN q
    ELSE IF IsSquare(q.num) /\ IsSquare(q.den)
    THEN Rat(Isqrt(q.num, 0), Isqrt(q.den, 0))
    ELSE [radicand |-> q]

\* a computeMean that divides by the number of samples
computeMean_population(values) ==
    LET samples == Len(values)
        mean == Quotient(sum(values), samples)
        squares == sumQ(pow2(sub(values, mean)))
        stdev == Sqrt(IF IsNaN(squares) THEN NaN
                      ELSE Quotient(squares.num, squares.den * samples))
    IN [value |-> mean, error |-> stdev]

\* a computeMean that gives a single sample the error 0
computeMean_guarded(values) ==
    LET samples == Len(values)
        mean == Quotient(sum(values), samples)
        squares == sumQ(pow2(sub(values, mean)))
        stdev == IF samples = 1 THEN Quotient(0, 1)
                 ELSE Sqrt(IF IsNaN(squares) THEN NaN
                           ELSE Quotient(squares.num, squares.den * (samples - 1)))
    IN [value |-> mean, error |-> stdev]

computeMean(values) ==
    LET samples == Len(values)
        mean == Quotient(sum(values), samples)
        squares == sumQ(pow2(sub(values, mean)))
        stdev == Sqrt(IF IsNaN(squares) THEN NaN
                      ELSE Quotient(squares.num, squares.den * (samples - 1)))
    IN [value |-> mean, error |-> stdev]

(***************************************************************************)
(* The specification of the pure functions: a function is called with an   *)
(* argument out of a bounded set and returns.                              *)
(***************************************************************************)
\* the timestamps a time_array is made of
Timestamps == {0, 100, 150, 151, 205}

\* the values computeMean is called with
SampleValues == {1, 2, 3, 6}

SampleArrays == UNION {[1..n -> SampleValues] : n \in 0..MaxSamples}

TimeArrays == {<<ct0, st0, st1, ct1>> : ct0 \in Timestamps, st0 \in Timestamps,
                                        st1 \in Timestamps, ct1 \in Timestamps}

InitPure ==
    /\ readyState = [e \in Endpoints |-> "CLOSED"]
    /\ createState = [e \in Endpoints |-> "idle"]
    /\ openListener = [e \in Endpoints |-> FALSE]
    /\ sockSocket = [e \in Endpoints |-> "none"]
    /\ jsonReceivers = [e \in Endpoints |-> EmptyReceivers]
    /\ binaryReceivers = [e \in Endpoints |-> EmptyReceivers]
    /\ binaryReceiverNextKind = [e \in Endpoints |-> Undefined]
    /\ inbox = [e \in Endpoints |-> <<>>]
    /\ sentLog = [e \in Endpoints |-> <<>>]
    /\ lastEvent = [e \in Endpoints |-> NoEvent]
    /\ now = 0
    /\ clockSkew = 0
    /\ timeCap = 0
    /\ testCap = 0
    /\ ClosuresInitial("timesync")
    /\ callStart = NoCall
    /\ pureCall \in {[fn |-> "time_array_to_timesync_result", arg |-> a, ret |-> <<>>] :
                         a \in TimeArrays}
                    \cup {[fn |-> "computeMean", arg |-> a, ret |-> <<>>] :
                             a \in SampleArrays}
    /\ sockCall = NoSockCall

\* time_array_to_timesync_result(arg) returns
ReturnTimesyncResult ==
    /\ pureCall.fn = "time_array_to_timesync_result"
    /\ pureCall.ret = <<>>
    /\ pureCall' = [pureCall EXCEPT !.ret = <<time_array_to_timesync_result(pureCall.arg)>>]
    /\ UNCHANGED <<connVars, sockVars, netVars, lastEvent, now, clockSkew, timeCap,
                   testCap, closureVars, callStart, sockCall>>

\* computeMean(arg) returns
ReturnComputeMean ==
    /\ pureCall.fn = "computeMean"
    /\ pureCall.ret = <<>>
    /\ pureCall' = [pureCall EXCEPT !.ret = <<computeMean(pureCall.arg)>>]
    /\ UNCHANGED <<connVars, sockVars, netVars, lastEvent, now, clockSkew, timeCap,
                   testCap, closureVars, callStart, sockCall>>

NextPure ==
    \/ ReturnTimesyncResult
    \/ ReturnComputeMean

SpecPure == InitPure /\ [][NextPure]_vars

(***************************************************************************)
(* Claims about the dispatcher (specification Spec).                       *)
(***************************************************************************)
\* C1 as stated: a binary message that arrives while the expected binary
\* kind is unset, or names a kind with no registered binary handler, makes
\* the dispatcher raise an error, and no function is called for it.
C1_UnroutableBinaryRaises ==
    LET ev == lastEvent["client"] IN
    (ev.type = "binary" /\ ev.registered = <<>>) =>
        (ev.threw /\ ev.called = <<>>)

\* C2: for every binary message the one handler called is the binary handler
\* registered under the expected binary kind held when the message arrived,
\* whatever the payload; with none registered there, no handler of the
\* application (binary or tagged, of any kind) is called.
C2_BinaryRoutedByExpectedKind ==
    LET ev == lastEvent["client"] IN
    ev.type = "binary" =>
        IF ev.registered # <<>>
        THEN ev.called = ev.registered /\ ~ev.threw
        ELSE \A i \in DOMAIN ev.called : ev.called[i] \notin AppHandlers

\* C2's case: a binary message went to hA, registered under the expected
\* kind k1, while hB is the binary handler of k2 and the tagged handler of k1.
C2_Witness ==
    LET ev == lastEvent["client"] IN
    /\ ev.type = "binary" /\ ev.nextKind = Str("k1") /\ ev.called = <<"hA">>
    /\ ev.f64 = <<2>>
    /\ DOMAIN binaryReceivers["client"] = {"k1", "k2"}
    /\ binaryReceivers["client"]["k1"] = "hA"
    /\ binaryReceivers["client"]["k2"] = "hB"
    /\ DOMAIN jsonReceivers["client"] = {"k1"}
    /\ jsonReceivers["client"]["k1"] = "hB"

\* C3: for every text message whose kind has a registered tagged handler, the
\* dispatcher calls exactly that handler, once, and nothing else.
C3_TextRoutedByKind ==
    LET ev == lastEvent["client"] IN
    (ev.type = "text" /\ ev.registered # <<>>) =>
        (ev.called = ev.registered /\ ~ev.threw)

\* C3's case: a text message of kind k1 went to hA while hB is the tagged
\* handler of k2 and the binary handler of k1, the expected binary kind.
C3_Witness ==
    LET ev == lastEvent["client"] IN
    /\ ev.type = "text" /\ ev.kind = "k1" /\ ev.called = <<"hA">>
    /\ DOMAIN jsonReceivers["client"] = {"k1", "k2"}
    /\ jsonReceivers["client"]["k1"] = "hA"
    /\ jsonReceivers["client"]["k2"] = "hB"
    /\ DOMAIN binaryReceivers["client"] = {"k1"}
    /\ binaryReceivers["client"]["k1"] = "hB"
    /\ binaryReceiverNextKind["client"] = Str("k1")

\* C4 as stated: a text message whose kind has no handler registered through
\* addJsonReceiver, whatever the kind string, makes the dispatcher raise an
\* error; the message is not silently dropped.
C4_UnknownTextKindRaises ==
    LET ev == lastEvent["client"] IN
    (ev.type = "text" /\ ev.registered = <<>>) =>
        (ev.threw /\ ev.called = <<>>)

\* C10: create on an open connection resolves, with a Sock bound to that
\* connection, within the call (no state has the connection open and create
\* pending); on a connecting connection it stays pending, with no Sock made,
\* for as long as the connection is connecting, and is resolved with a Sock
\* bound to that connection as soon as the connection is open.
C10_CreateResolvesWhenOpen ==
    LET c == "client" IN
    /\ (readyState[c] = "OPEN" /\ createState[c] # "idle") =>
           (createState[c] = "resolved" /\ sockSocket[c] = c)
    /\ (readyState[c] = "CONNECTING" /\ createState[c] # "idle") =>
           (createState[c] = "pending" /\ sockSocket[c] = "none")
    /\ createState[c] = "resolved" => (readyState[c] = "OPEN" /\ sockSocket[c] = c)

\* C10's case: a create called while connecting has resolved after the open
\* event.
C10_Witness ==
    /\ createState["client"] = "resolved"
    /\ openListener["client"]
    /\ sockSocket["client"] = "client"

(***************************************************************************)
(* Claims about the time-sync protocol (specification SpecTimesync).       *)
(***************************************************************************)
\* the promise of the latest TimesyncFn call
LatestCall == ts_calls[Len(ts_calls)]

\* the latest TimesyncFn call has resolved
LatestResolved == ts_calls # <<>> /\ LatestCall.state = "resolved"

\* the round buffers the client sent, and the replies the server sent, since
\* the latest call began
RoundsSent == SelectSeq(sentLog["client"], LAMBDA f : f.type = "binary")

RepliesSent == SelectSeq(sentLog["server"], LAMBDA f : f.type = "binary")

\* C5: a TimesyncFn call with amount N >= 1 resolves with exactly N samples,
\* and the i-th sample is the one derived from the i-th round buffer the
\* client sent: its uplink offset and process time are those of the i-th
\* buffer's ct0 and of the server's stamps on the reply to it, and its ct1
\* was read after that buffer was sent and before the next one was.
C5_NSamplesInIssueOrder ==
    (LatestResolved /\ LatestCall.amount >= 1) =>
        LET value == LatestCall.value
            N == LatestCall.amount
        IN /\ Len(value) = N
           /\ Len(RoundsSent) = N
           /\ Len(RepliesSent) = N
           /\ \A i \in 1..N :
                LET ct0 == RoundsSent[i].f64[1]
                    st0 == RepliesSent[i].f64[2]
                    st1 == RepliesSent[i].f64[3]
                    ct1 == value[i].serverDownlinkOffsetTime + st1
                IN /\ RepliesSent[i].f64[1] = ct0
                   /\ value[i] = time_array_to_timesync_result(<<ct0, st0, st1, ct1>>)
                   /\ ct0 <= ct1
                   /\ i < N => ct1 <= RoundsSent[i + 1].f64[1]
                   /\ ct1 <= get_time("client", now)

\* C5's case: a call with amount 3 has resolved, and the three round buffers
\* carried three different ct0.
C5_Witness ==
    /\ LatestResolved
    /\ LatestCall.amount = 3
    /\ Len(LatestCall.value) = 3
    /\ Len(RoundsSent) = 3
    /\ RoundsSent[1].f64[1] < RoundsSent[2].f64[1]
    /\ RoundsSent[2].f64[1] < RoundsSent[3].f64[1]
    /\ LatestCall.value[1] # LatestCall.value[3]

\* C6 as stated: at the moment a TimesyncFn call has resolved, the expected
\* binary kind of the client and that of the server each equal the value
\* they had immediately before the call began.
C6_BothRestoredAtCompletion ==
    LatestResolved =>
        /\ binaryReceiverNextKind["client"] = callStart.client
        /\ binaryReceiverNextKind["server"] = callStart.server

\* C6 amended: when a TimesyncFn call has resolved, the client's expected
\* binary kind equals the value it had immediately before the call began;
\* the server's does once the server has handled the call's end message
\* (which is on its way when the call resolves), provided nothing was on its
\* way to the server when the call began.
C6_ClientRestoredThenServer ==
    LatestResolved =>
        /\ binaryReceiverNextKind["client"] = callStart.client
        /\ (inbox["server"] = <<>> /\ callStart.quiet) =>
               binaryReceiverNextKind["server"] = callStart.server

\* C6's case: a call of three rounds, made while the client expected k1 and
\* the server expected nothing, has resolved and its end message has been
\* handled.
C6_Witness ==
    /\ LatestResolved
    /\ LatestCall.amount = 3
    /\ inbox["server"] = <<>>
    /\ callStart.quiet
    /\ callStart.client = Str("k1")
    /\ callStart.server = Undefined
    /\ lastEvent["server"].kind = timesync_CS_json_end

(***************************************************************************)
(* Claims about the pure functions (specification SpecPure).               *)
(***************************************************************************)
\* C9: for every round (ct0, st0, st1, ct1) the derived sample has
\* serverUplinkOffsetTime = st0 - ct0, serverDownlinkOffsetTime = ct1 - st1,
\* serverProcessTime = st1 - st0 and returnTripTime = (ct1 - ct0) minus the
\* process time; (100, 150, 151, 205) gives (50, 54, 1, 104).
C9_DerivedSample ==
    (pureCall.fn = "time_array_to_timesync_result" /\ pureCall.ret # <<>>) =>
        LET ct0 == pureCall.arg[1]
            st0 == pureCall.arg[2]
            st1 == pureCall.arg[3]
            ct1 == pureCall.arg[4]
            r == pureCall.ret[1]
        IN /\ r.serverUplinkOffsetTime = st0 - ct0
           /\ r.serverDownlinkOffsetTime = ct1 - st1
           /\ r.serverProcessTime = st1 - st0
           /\ r.returnTripTime = (ct1 - ct0) - r.serverProcessTime
           /\ pureCall.arg = <<100, 150, 151, 205>> =>
                  r = [serverUplinkOffsetTime |-> 50, serverDownlinkOffsetTime |-> 54,
                       serverProcessTime |-> 1, returnTripTime |-> 104]

\* C9's case: the sample of (100, 150, 151, 205) has been derived.
C9_Witness ==
    /\ pureCall.arg = <<100, 150, 151, 205>>
    /\ pureCall.ret # <<>>
    /\ pureCall.ret[1].returnTripTime = 104
    /\ pureCall.ret[1].serverUplinkOffsetTime = 50

(***************************************************************************)
(* Claims about the speed-test protocol (specification SpecSpeedtest).     *)
(***************************************************************************)
\* the promise of the latest speed-test call
LatestSpeedtest == st_calls[Len(st_calls)]

\* nothing is on its way to either endpoint
Quiet == NothingInFlight

\* C7 as stated: after a speed-test call has resolved (and every message of
\* it has been handled), the expected binary kind of the client and that of
\* the server each equal the value they had immediately before the call
\* began.
C7_BothRestoredAfterSpeedtest ==
    (st_calls # <<>> /\ LatestSpeedtest.state = "resolved" /\ Quiet) =>
        /\ binaryReceiverNextKind["client"] = callStart.client
        /\ binaryReceiverNextKind["server"] = callStart.server

\* the results a speed-test call resolved with are as many as the sub-tests
\* of its pattern, and the i-th has the mode and the size of the i-th sub-test
ResultsFollowPattern(call) ==
    /\ Len(call.value) = Len(call.pattern)
    /\ \A i \in DOMAIN call.pattern :
          /\ call.value[i].mode = call.pattern[i].mode
          /\ call.value[i].size = call.pattern[i].size

\* C8 as stated: a speed-test call, whatever its pattern of k sub-tests of
\* at least 8 bytes each, resolves with exactly k results in pattern order,
\* the i-th having the mode and the size of the i-th sub-test: so no call
\* ends rejected, and a call that has resolved has such results.
C8_ResolvesWithKResultsInOrder ==
    \A c \in DOMAIN st_calls :
        (\A i \in DOMAIN st_calls[c].pattern : st_calls[c].pattern[i].size >= 8) =>
            /\ st_calls[c].state # "rejected"
            /\ st_calls[c].state = "resolved" => ResultsFollowPattern(st_calls[c])

(***************************************************************************)
(* Claims about Sock.create on a connection that is not open                *)
(* (specification Spec).                                                   *)
(***************************************************************************)
\* C11: a create called while the connection is closing or closed is
\* rejected within the call, and constructs no Sock then or later: no state
\* has a rejected create together with a Sock (whose constructor is what
\* adds the message listener).
C11_CreateRejectsWhenClosed ==
    /\ [][(/\ createState["client"] = "idle"
           /\ createState'["client"] # "idle"
           /\ readyState["client"] \in {"CLOSING", "CLOSED"})
            => (createState'["client"] = "rejected" /\ sockSocket'["client"] = "none")]_vars
    /\ [](createState["client"] = "rejected" => sockSocket["client"] = "none")

\* C11's case: create was called on a closing connection and is rejected.
C11_Witness ==
    /\ readyState["client"] = "CLOSING"
    /\ createState["client"] = "rejected"
    /\ sockSocket["client"] = "none"

\* C12 as stated: a create called while connecting does not stay pending
\* once the connection has closed without opening; it is rejected.
C12_CreateRejectsWhenConnectFails ==
    (openListener["client"] /\ readyState["client"] = "CLOSED") =>
        createState["client"] = "rejected"

(***************************************************************************)
(* Claims about the Sock's methods (specifications SpecReceivers and       *)
(* SpecCalls).                                                             *)
(***************************************************************************)
\* C13: while addJsonReceiver(k, h) is the latest call, h is the tagged
\* handler of k, whatever handler k had before; the call leaves the tagged
\* handlers of the other kinds as they were; and a text message of kind k
\* that arrives then calls h, once, and no other function.
C13_LatestTaggedHandlerOnly ==
    /\ [](sockCall.fn = "addJsonReceiver" =>
            /\ sockCall.arg[1] \in DOMAIN jsonReceivers["client"]
            /\ jsonReceivers["client"][sockCall.arg[1]] = sockCall.arg[2])
    /\ [][LET c == "client"
              own(k) == IF k \in DOMAIN jsonReceivers[c]
                        THEN <<jsonReceivers[c][k]>> ELSE <<>>
              own1(k) == IF k \in DOMAIN jsonReceivers'[c]
                         THEN <<jsonReceivers'[c][k]>> ELSE <<>>
          IN
          /\ (sockCall' # sockCall /\ sockCall'.fn = "addJsonReceiver") =>
                 \A k \in AnyKinds \ {sockCall'.arg[1]} : own1(k) = own(k)
          /\ (sockCall' # sockCall /\ sockCall'.fn # "addJsonReceiver") =>
                 jsonReceivers' = jsonReceivers
          /\ (ClientMessageEvent /\ sockCall.fn = "addJsonReceiver"
                 /\ Head(inbox[c]).type = "text" /\ Head(inbox[c]).kind = sockCall.arg[1])
              => /\ lastEvent'[c].called = <<sockCall.arg[2]>>
                 /\ ~lastEvent'[c].threw
                 /\ jsonReceivers' = jsonReceivers]_vars

\* C13's case: hA handled a text message of kind k1, so it was the tagged
\* handler of k1; the latest call then gave k1 the handler hB, over hA, and
\* k2 kept its handler hA.
C13_Witness ==
    LET ev == lastEvent["client"] IN
    /\ ev.type = "text" /\ ev.kind = "k1" /\ ev.called = <<"hA">>
    /\ sockCall.fn = "addJsonReceiver" /\ sockCall.arg = <<"k1", "hB">>
    /\ DOMAIN jsonReceivers["client"] = {"k1", "k2"}
    /\ jsonReceivers["client"]["k1"] = "hB"
    /\ jsonReceivers["client"]["k2"] = "hA"

\* C14: the expected binary kind of a new Sock is undefined; it changes only
\* in a call of expectBinaryKind, which leaves it at its argument; sendJson,
\* sendBinary, addJsonReceiver, addBinaryReceiver and getBinaryKind leave it
\* as it is; and getBinaryKind returns it.
C14_ExpectedKindIsLatestExpect ==
    /\ binaryReceiverNextKind["client"] = Undefined
    /\ [](/\ sockCall.fn = "expectBinaryKind" =>
                binaryReceiverNextKind["client"] = Str(sockCall.arg[1])
          /\ sockCall.fn = "getBinaryKind" =>
                sockCall.ret = <<binaryReceiverNextKind["client"]>>)
    /\ [][/\ binaryReceiverNextKind'["client"] # binaryReceiverNextKind["client"] =>
                (sockCall' # sockCall /\ sockCall'.fn = "expectBinaryKind")
          /\ (sockCall' # sockCall /\ sockCall'.fn # "expectBinaryKind") =>
                binaryReceiverNextKind' = binaryReceiverNextKind]_vars

\* C14's case: getBinaryKind has returned "k2", the argument of the latest
\* expectBinaryKind, after a binary handler was registered and a binary frame
\* sent.
C14_Witness ==
    /\ sockCall.fn = "getBinaryKind"
    /\ sockCall.ret = <<Str("k2")>>
    /\ "k1" \in DOMAIN binaryReceivers["client"]
    /\ lastEvent["server"].type = "binary"

\* C15: a call of sendJson, respectively sendBinary, appends exactly one
\* frame, the message as text, respectively the buffer as a binary frame,
\* to what the connection carries to the peer; it is over in the step of the
\* call, with nothing taken from what the connection carries to the caller
\* and no message event in it; and it leaves both tables of receivers and
\* the expected binary kind as they were.
C15_SendWritesOneFrame ==
    [][(sockCall' # sockCall /\ sockCall'.fn \in {"sendJson", "sendBinary"}) =>
          /\ inbox'["server"] = Append(inbox["server"], sockCall'.arg[1])
          /\ sockCall'.arg[1].type =
                 (IF sockCall'.fn = "sendJson" THEN "text" ELSE "binary")
          /\ inbox'["client"] = inbox["client"]
          /\ lastEvent' = lastEvent
          /\ jsonReceivers' = jsonReceivers
          /\ binaryReceivers' = binaryReceivers
          /\ binaryReceiverNextKind' = binaryReceiverNextKind]_vars

\* C15's case: sendJson was called while a binary kind is expected and both
\* tables hold a handler, and its frame is on the way to the server.
C15_Witness ==
    /\ sockCall.fn = "sendJson"
    /\ inbox["server"] = <<sockCall.arg[1]>>
    /\ binaryReceiverNextKind["client"] = Str("k1")
    /\ DOMAIN jsonReceivers["client"] # {}
    /\ DOMAIN binaryReceivers["client"] # {}

(***************************************************************************)
(* Claims about a connection that loses replies (specification SpecLossy). *)
(***************************************************************************)
\* C16: a promise of a protocol call (of the TimesyncFn or of the speed-test
\* function) that was pending when a frame of the server (a ready
\* acknowledgement, the reply to a round, downlink data or an uplink
\* statistic) was lost stays pending in every later state, also while a
\* later call runs and settles; and once a reply of the latest call was
\* lost, the client writes no further frame until the application calls
\* again.
C16_LostReplyLeavesCallPending ==
    /\ [](callStart.lost \subseteq PendingIds)
    /\ [][(/\ st_calls # <<>>
           /\ LatestSpeedtest.id \in callStart.lost
           /\ callStart'.n = callStart.n)
            => sentLog'["client"] = sentLog["client"]]_vars

\* C16's case: the first speed-test call lost the reply of a sub-test and
\* is pending, with nothing in flight, while the call made after it has
\* resolved.
C16_Witness ==
    /\ Len(st_calls) = 2
    /\ st_calls[1].state = "pending"
    /\ st_calls[1].pattern # <<>>
    /\ st_calls[1].id \in callStart.lost
    /\ st_calls[2].state = "resolved"
    /\ NothingInFlight

(***************************************************************************)
(* Claims about the samples of a time-sync call (specification             *)
(* SpecTimesync).                                                          *)
(***************************************************************************)
\* C17: with the server's clock ahead of the client's by the constant
\* clockSkew, a TimesyncFn call during which no real time passed between the
\* client's sending the first round buffer and the resolution (real time is
\* still what the client stamped on that buffer) yields, in every sample,
\* serverUplinkOffsetTime = clockSkew and serverDownlinkOffsetTime =
\* -clockSkew.
C17_ZeroLatencyYieldsClockOffset ==
    (/\ LatestResolved
     /\ LatestCall.amount >= 1
     /\ Len(RoundsSent) = LatestCall.amount
     /\ RoundsSent[1].f64[1] = now) =>
        \A i \in DOMAIN LatestCall.value :
            /\ LatestCall.value[i].serverUplinkOffsetTime = clockSkew
            /\ LatestCall.value[i].serverDownlinkOffsetTime = 0 - clockSkew

\* C17's case: one round, sent at real time 1 and answered with no time
\* passing, between clocks that are 5 apart: the sample has the offsets 5
\* and -5.
C17_Witness ==
    /\ LatestResolved
    /\ LatestCall.amount = 1
    /\ Len(RoundsSent) = 1
    /\ RoundsSent[1].f64[1] = 1
    /\ now = 1
    /\ clockSkew = 5
    /\ Len(LatestCall.value) = 1
    /\ LatestCall.value[1].serverUplinkOffsetTime = 5
    /\ LatestCall.value[1].serverDownlinkOffsetTime = -5

(***************************************************************************)
(* Claims about computeMean (specification SpecPure).                      *)
(***************************************************************************)
\* the sum of the squares of n * x - total over the values x: n * n times the
\* sum of the squared deviations from total / n
RECURSIVE ScaledSquares(_, _, _)
ScaledSquares(values, n, total) ==
    IF values = <<>> THEN 0
    ELSE (n * Head(values) - total) * (n * Head(values) - total)
         + ScaledSquares(Tail(values), n, total)

\* the square of what computeMean returned as error
ErrorSquared(error) ==
    IF "radicand" \in DOMAIN error THEN error.radicand
    ELSE Rat(error.num * error.num, error.den * error.den)

\* C18: for n >= 2 values computeMean returns value = (sum of the values) / n
\* and error = the square root of (sum of the squared deviations from that
\* mean) / (n - 1): value times n is the sum, and the square of error times
\* (n - 1) is the sum of the squared deviations; and computeMean([1, 2, 3])
\* is {value: 2, error: 1}.
C18_MeanAndSampleDeviation ==
    (pureCall.fn = "computeMean" /\ pureCall.ret # <<>> /\ Len(pureCall.arg) >= 2) =>
        LET values == pureCall.arg
            n == Len(values)
            total == sum(values)
            r == pureCall.ret[1]
            e2 == ErrorSquared(r.error)
        IN /\ r.value.den > 0
           /\ r.value.num * n = total * r.value.den
           /\ e2.den > 0
           /\ e2.num >= 0
           /\ e2.num * (n - 1) * n * n = ScaledSquares(values, n, total) * e2.den
           /\ "radicand" \notin DOMAIN r.error => (r.error.num >= 0 /\ r.error.den > 0)
           /\ values = <<1, 2, 3>> =>
                 (r.value = Rat(2, 1) /\ r.error = Rat(1, 1))

\* C18's case: computeMean([1, 2, 3]) has returned.
C18_Witness ==
    /\ pureCall.fn = "computeMean"
    /\ pureCall.arg = <<1, 2, 3>>
    /\ pureCall.ret # <<>>
    /\ pureCall.ret[1].value = Rat(2, 1)
    /\ pureCall.ret[1].error = Rat(1, 1)

\* C19: computeMean([x]) returns (it does not throw), with value = x and an
\* error that is not a number.
C19_SingleSampleErrorIsNaN ==
    /\ (pureCall.fn = "computeMean" /\ Len(pureCall.arg) = 1) =>
          (pureCall.ret # <<>> \/ ENABLED ReturnComputeMean)
    /\ (pureCall.fn = "computeMean" /\ pureCall.ret # <<>> /\ Len(pureCall.arg) = 1) =>
          /\ pureCall.ret[1].value = Rat(pureCall.arg[1], 1)
          /\ pureCall.ret[1].error = NaN

\* C19's case: computeMean([6]) has returned.
C19_Witness ==
    /\ pureCall.fn = "computeMean"
    /\ pureCall.arg = <<6>>
    /\ pureCall.ret # <<>>
    /\ pureCall.ret[1].value = Rat(6, 1)
    /\ pureCall.ret[1].error = NaN

(***************************************************************************)
(* Claims about serialized protocol calls (specification SpecSerial).      *)
(***************************************************************************)
\* C20: with the calls made one after the other, each once the one before
\* has resolved, every binary frame arrives while the expected binary kind
\* of its receiver is the kind its sender meant it for, and is handled by
\* the receiver registered under that kind; and no message, text or binary,
\* fails to find a registered receiver at either endpoint.
C20_SerialCallsRouteBinaryFrames ==
    \A e \in Endpoints :
        LET ev == lastEvent[e] IN
        /\ ev.type = "binary" =>
              /\ ev.nextKind = Str(ev.kind)
              /\ ev.registered # <<>>
              /\ ev.called = ev.registered
        /\ ev.type # "none" =>
              /\ ev.registered # <<>>
              /\ ev.called = ev.registered
              /\ ev.called[1] \in PluginHandlers

\* C20's case: in the second call, a speed test, the client received
\* downlink data and the server then received uplink data.
C20_Witness ==
    /\ callStart.n = 2
    /\ lastEvent["client"].type = "binary"
    /\ lastEvent["client"].kind = speedtest_SC_binary_data_down
    /\ lastEvent["client"].called = <<"speedtest_client_data_down">>
    /\ lastEvent["server"].type = "binary"
    /\ lastEvent["server"].kind = speedtest_CS_binary_data_up
    /\ lastEvent["server"].called = <<"speedtest_server_data_up">>

(***************************************************************************)
(* Claims about the rounds of one time-sync call (specification            *)
(* SpecTimesync).                                                          *)
(***************************************************************************)
\* the replies of the latest call the client has received: those the server
\* sent that are no longer on their way
RepliesReceived ==
    Len(RepliesSent) - Len(SelectSeq(inbox["client"], LAMBDA f : f.type = "binary"))

\* C21: within one TimesyncFn call at most one round buffer is outstanding
\* (sent by the client and its reply not yet received), and the client sends
\* a round buffer only in a task at whose end it has received the reply to
\* every round buffer it had sent before, one buffer per task.
C21_RoundsAreSequential ==
    /\ [](Len(RoundsSent) - RepliesReceived \in {0, 1})
    /\ [][Len(RoundsSent') > Len(RoundsSent) =>
              /\ Len(RoundsSent') = Len(RoundsSent) + 1
              /\ RepliesReceived' = Len(RoundsSent)]_vars

\* C21's case: the client has received two replies and its third round
\* buffer is outstanding.
C21_Witness ==
    /\ ts_calls # <<>>
    /\ LatestCall.state = "pending"
    /\ LatestCall.amount = 3
    /\ Len(RoundsSent) = 3
    /\ RepliesReceived = 2

\* the ready acknowledgements the server sent since the latest call began,
\* and whether the client has received one
ReadiesSent ==
    SelectSeq(sentLog["server"], LAMBDA f : f.kind = timesync_SC_json_init_ready)

ReadyReceived ==
    /\ ReadiesSent # <<>>
    /\ \A i \in DOMAIN inbox["client"] :
          inbox["client"][i].kind # timesync_SC_json_init_ready

\* C22: the task in which the server sends the ready acknowledgement leaves
\* the server expecting the round-buffer kind; the client has sent no round
\* buffer unless it has received the ready acknowledgement; and whenever a
\* round buffer arrived at the server, the server was expecting the
\* round-buffer kind and its receiver of round buffers was called.
C22_HandshakeOrdering ==
    /\ [][Len(ReadiesSent') > Len(ReadiesSent) =>
              binaryReceiverNextKind'["server"] = Str(timesync_CS_binary_ct0)]_vars
    /\ [](RoundsSent # <<>> => ReadyReceived)
    /\ [](lastEvent["server"].type = "binary" =>
              /\ lastEvent["server"].nextKind = Str(timesync_CS_binary_ct0)
              /\ lastEvent["server"].called = <<"timesync_server_ct0">>
              /\ ~lastEvent["server"].threw)

\* C22's case: in the second call the ready acknowledgement was received and
\* a round buffer has arrived at the server, which had expected k1 before
\* the call.
C22_Witness ==
    /\ callStart.n = 2
    /\ callStart.server = Str("k1")
    /\ ReadyReceived
    /\ Len(RoundsSent) = 1
    /\ lastEvent["server"].type = "binary"
    /\ lastEvent["server"].kind = timesync_CS_binary_ct0

\* the end messages the client sent since the latest call began
EndsSent == SelectSeq(sentLog["client"], LAMBDA f : f.kind = timesync_CS_json_end)

\* C23: in a TimesyncFn call of N rounds the client sends at most one end
\* message, and exactly one by the time the call has resolved; when it has
\* sent it, it has sent N round buffers and received the N replies, and the
\* end message is the last frame it sent; and once the server has handled
\* the end message, its expected binary kind is the one its init message had
\* found there.
C23_OneEndThenServerRestores ==
    /\ Len(EndsSent) <= 1
    /\ LatestResolved => Len(EndsSent) = 1
    /\ EndsSent # <<>> =>
          /\ sentLog["client"][Len(sentLog["client"])].kind = timesync_CS_json_end
          /\ Len(RoundsSent) = LatestCall.amount
          /\ RepliesReceived = LatestCall.amount
    /\ (lastEvent["server"].type = "text" /\ lastEvent["server"].kind = timesync_CS_json_end) =>
          binaryReceiverNextKind["server"] = callStart.atInit

\* C23's case: the second call, of two rounds, was made while the end message
\* of the first was on its way and the server still expected round buffers;
\* its init message found k1 there, and the server has handled its end
\* message.
C23_Witness ==
    /\ callStart.n = 2
    /\ ~callStart.quiet
    /\ callStart.server = Str(timesync_CS_binary_ct0)
    /\ callStart.atInit = Str("k1")
    /\ LatestResolved
    /\ LatestCall.amount = 2
    /\ Len(EndsSent) = 1
    /\ inbox["server"] = <<>>
    /\ lastEvent["server"].kind = timesync_CS_json_end

\* the round buffers of the latest call the server has handled: those the
\* client sent that are no longer on their way
RoundsHandled ==
    Len(RoundsSent) - Len(SelectSeq(inbox["server"], LAMBDA f : f.type = "binary"))

\* C24: the server has sent exactly one reply for each round buffer it has
\* handled; the i-th reply is the i-th round buffer with its first slot (ct0)
\* and its fourth as received and with two readings of the server's clock in
\* its second and third: st0, read no earlier than the buffer was sent, and
\* st1, read no earlier than st0 and no later than the present; so the
\* serverProcessTime of every sample the client derived is >= 0.
C24_ServerStampsEachRoundOnce ==
    /\ Len(RepliesSent) = RoundsHandled
    /\ \A i \in DOMAIN RepliesSent :
          /\ RepliesSent[i].byteLength = TimeArrayBytes
          /\ RepliesSent[i].f64[1] = RoundsSent[i].f64[1]
          /\ RepliesSent[i].f64[4] = RoundsSent[i].f64[4]
          /\ get_time("server", RoundsSent[i].f64[1]) <= RepliesSent[i].f64[2]
          /\ RepliesSent[i].f64[2] <= RepliesSent[i].f64[3]
          /\ RepliesSent[i].f64[3] <= get_time("server", now)
    /\ \A i \in DOMAIN ts_client.results : ts_client.results[i].serverProcessTime >= 0
    /\ LatestResolved =>
          \A i \in DOMAIN LatestCall.value : LatestCall.value[i].serverProcessTime >= 0

\* C24's case: a call of two rounds has resolved; the server's clock moved
\* between its two readings for the first round buffer and not for the
\* second.
C24_Witness ==
    /\ LatestResolved
    /\ LatestCall.amount = 2
    /\ Len(RepliesSent) = 2
    /\ RepliesSent[1].f64[2] < RepliesSent[1].f64[3]
    /\ RepliesSent[2].f64[2] = RepliesSent[2].f64[3]
    /\ LatestCall.value[1].serverProcessTime = 1
    /\ LatestCall.value[2].serverProcessTime = 0

(***************************************************************************)
(* Claims about the course of a speed-test call (specifications            *)
(* SpecSpeedtest and SpecSerial).                                          *)
(***************************************************************************)
\* the frames of a kind among those an endpoint sent
SentOfKind(e, kind) == SelectSeq(sentLog[e], LAMBDA f : f.kind = kind)

\* C25 as stated: once a speed-test call has resolved, so after the result of
\* its last sub-test was received, the client has sent a speed-test end
\* message; and once everything sent has been handled, the server's expected
\* binary kind is the one the speed-test init message had found there.
C25_EndSentAndServerRestores ==
    (st_calls # <<>> /\ LatestSpeedtest.state = "resolved") =>
        /\ SentOfKind("client", speedtest_CS_json_end) # <<>>
        /\ NothingInFlight => binaryReceiverNextKind["server"] = callStart.atInit

\* the speed-test messages the client sent
SpeedtestFramesSent ==
    SelectSeq(sentLog["client"],
              LAMBDA f : f.kind \in {speedtest_CS_json_init, speedtest_CS_json_next_down,
                                     speedtest_CS_binary_data_up, speedtest_CS_json_end})

\* C26 as stated: while a speed-test call awaits the time-sync call it made,
\* the client has sent no speed-test message; and once that time-sync call
\* has resolved, the speed-test call goes on with the two offsets it
\* obtained from it: it does not end rejected, and both offsets are numbers.
C26_TimesyncFirstThenOffsets ==
    \A c \in DOMAIN st_calls :
        /\ st_calls[c].awaits # 0 => SpeedtestFramesSent = <<>>
        /\ st_calls[c].awaits = 0 =>
              /\ st_calls[c].state # "rejected"
              /\ st_client.serverUplinkOffsetTime # Undefined
              /\ st_client.serverDownlinkOffsetTime # Undefined

\* the requests and payloads of sub-tests the client sent
SubtestsSent ==
    SelectSeq(sentLog["client"],
              LAMBDA f : f.kind \in {speedtest_CS_json_next_down, speedtest_CS_binary_data_up})

\* the client has received the ready acknowledgement of the speed test
SpeedtestReadyReceived ==
    /\ SentOfKind("server", speedtest_SC_json_init_ready) # <<>>
    /\ \A i \in DOMAIN inbox["client"] :
          inbox["client"][i].kind # speedtest_SC_json_init_ready

\* C27: the task in which the server sends the speed test's ready
\* acknowledgement leaves it expecting the uplink-data kind; the client has
\* sent no request or payload of a sub-test unless it has received that
\* acknowledgement; from then on, while the call is pending, the server
\* expects the uplink-data kind; and no task in which the server handles a
\* next-down request or a binary payload takes the server away from it.
C27_SpeedtestHandshake ==
    /\ [][Len(SentOfKind("server", speedtest_SC_json_init_ready)') >
              Len(SentOfKind("server", speedtest_SC_json_init_ready)) =>
                  binaryReceiverNextKind'["server"] = Str(speedtest_CS_binary_data_up)]_vars
    /\ [](SubtestsSent # <<>> => SpeedtestReadyReceived)
    /\ []((SpeedtestReadyReceived /\ LatestSpeedtest.state = "pending") =>
              binaryReceiverNextKind["server"] = Str(speedtest_CS_binary_data_up))
    /\ [][(/\ binaryReceiverNextKind["server"] = Str(speedtest_CS_binary_data_up)
           /\ binaryReceiverNextKind'["server"] # Str(speedtest_CS_binary_data_up)) =>
              /\ Head(inbox["server"]).type = "text"
              /\ Head(inbox["server"]).kind # speedtest_CS_json_next_down]_vars

\* C27's case: the second call is a speed test; its pattern is a downlink
\* and then an uplink sub-test; both payloads have arrived and the server
\* still expects the uplink-data kind.
C27_Witness ==
    /\ callStart.n = 2
    /\ SpeedtestReadyReceived
    /\ LatestSpeedtest.state = "pending"
    /\ Len(SubtestsSent) = 2
    /\ SubtestsSent[1].kind = speedtest_CS_json_next_down
    /\ SubtestsSent[2].kind = speedtest_CS_binary_data_up
    /\ lastEvent["server"].type = "binary"
    /\ inbox["server"] = <<>>
    /\ binaryReceiverNextKind["server"] = Str(speedtest_CS_binary_data_up)

\* the latest speed-test call has gone on past its await of the time-sync
\* call
SpeedtestUnderWay ==
    /\ st_calls # <<>>
    /\ LatestSpeedtest.awaits = 0
    /\ LatestSpeedtest.state # "rejected"

\* C28: in a speed-test call at most one sub-test is outstanding (its request
\* or payload sent, its result not yet appended); the i-th result is that of
\* the i-th sub-test sent; and the client sends the request or payload of a
\* sub-test only in a task at whose end the results of all sub-tests sent
\* before are appended, one sub-test per task.
C28_SubtestsAreSequential ==
    /\ [](SpeedtestUnderWay =>
              /\ Len(SubtestsSent) - Len(st_client.results) \in {0, 1}
              /\ \A i \in DOMAIN st_client.results :
                    (st_client.results[i].mode = "down") =
                        (SubtestsSent[i].kind = speedtest_CS_json_next_down))
    /\ [][Len(SubtestsSent') > Len(SubtestsSent) =>
              /\ Len(SubtestsSent') = Len(SubtestsSent) + 1
              /\ Len(st_client.results') = Len(SubtestsSent)]_vars

\* C28's case: the result of an uplink sub-test is appended and the request
\* of the downlink sub-test after it is outstanding.
C28_Witness ==
    /\ SpeedtestUnderWay
    /\ LatestSpeedtest.state = "pending"
    /\ Len(LatestSpeedtest.pattern) = 2
    /\ Len(SubtestsSent) = 2
    /\ Len(st_client.results) = 1
    /\ st_client.results[1].mode = "up"
    /\ SubtestsSent[2].kind = speedtest_CS_json_next_down

(***************************************************************************)
(* Claims about the single sub-tests (specification SpecSubtest).          *)
(***************************************************************************)
\* the offsets of the run: the means the time-sync call of the speed-test
\* call resolved with
RunOffsets == CallOf(ts_calls, 1).value.mean_stats

\* the value a - q of a number a and an exact quotient q
Less(a, q) == [num |-> a * q.den - q.num, den |-> q.den]

\* the value q - a of an exact quotient q and a number a
LessNumber(q, a) == [num |-> q.num - a * q.den, den |-> q.den]

\* the value a + q of a number a and an exact quotient q
Plus(a, q) == [num |-> a * q.den + q.num, den |-> q.den]

DownRequests == SentOfKind("client", speedtest_CS_json_next_down)

DownPayloads == SentOfKind("server", speedtest_SC_binary_data_down)

\* C29: the server has sent one binary payload for each next-down request it
\* has handled, the i-th of max(8, s) bytes for the i-th request's size s;
\* the payload's first float is the server's clock at the end of the task
\* that sent it; and the task in which the client receives a downlink
\* payload appends the result {mode: down, size: the payload's byte length,
\* time: (clientReceiveTime - serverDownlinkOffsetTime) - serverSendTime},
\* with the client's clock as read in that task, the downlink offset of the
\* run's time-sync call and the payload's first float.
C29_DownlinkSubtest ==
    /\ [](/\ Len(DownPayloads) =
               Len(DownRequests)
               - Len(SelectSeq(inbox["server"],
                               LAMBDA f : f.kind = speedtest_CS_json_next_down))
          /\ \A i \in DOMAIN DownPayloads :
                DownPayloads[i].byteLength =
                    IF DownRequests[i].size > 8 THEN DownRequests[i].size ELSE 8)
    /\ [][Len(DownPayloads') > Len(DownPayloads) =>
              /\ Len(DownPayloads') = Len(DownPayloads) + 1
              /\ DownPayloads'[Len(DownPayloads')].f64[1] = get_time("server", now')]_vars
    /\ [][(/\ inbox["client"] # <<>>
           /\ Head(inbox["client"]).kind = speedtest_SC_binary_data_down
           /\ inbox'["client"] = Tail(inbox["client"])) =>
              LET data == Head(inbox["client"])
                  result == st_client.results'[Len(st_client.results')]
              IN /\ Len(st_client.results') = Len(st_client.results) + 1
                 /\ result.mode = "down"
                 /\ result.size = data.byteLength
                 /\ \E clientReceiveTime \in get_time("client", now)..get_time("client", now') :
                       result.time =
                           LessNumber(Less(clientReceiveTime, RunOffsets[2]), data.f64[1])]_vars

\* C29's case: a call with the single sub-test ["down", 4] has resolved; the
\* payload had the least size, 8 bytes, and took one tick of real time.
C29_Witness ==
    /\ st_calls # <<>>
    /\ LatestSpeedtest.state = "resolved"
    /\ LatestSpeedtest.pattern = <<[mode |-> "down", size |-> 4]>>
    /\ Len(DownPayloads) = 1
    /\ DownPayloads[1].byteLength = 8
    /\ LatestSpeedtest.value[1].mode = "down"
    /\ LatestSpeedtest.value[1].size = 8
    /\ LatestSpeedtest.value[1].time.num = LatestSpeedtest.value[1].time.den
    /\ LatestSpeedtest.value[1].time.den > 0

UpPayloads == SentOfKind("client", speedtest_CS_binary_data_up)

StatsSent == SentOfKind("server", speedtest_SC_json_stat_up)

\* the uplink sub-tests among those the generator of the speed-test call has
\* started
UpSubtestsStarted ==
    LET g == st_client.executeNextTest
    IN SelectSeq(SubSeq(g.pattern, 1, IF g.i <= Len(g.pattern) THEN g.i ELSE Len(g.pattern)),
                 LAMBDA test : test.mode = "up")

\* C30 as stated: for every uplink sub-test it has started the client has
\* sent one binary payload, of exactly the requested size and with the
\* client's clock at the end of the sending task as its first float; the
\* server has sent one stat message for each payload it has handled, with
\* the payload's first float, its own clock at the end of the handling task
\* and the payload's byte length; and the task in which the client receives
\* a stat message appends the result {mode: up, size: the message's size,
\* time: serverReceiveTime - (clientSendTime + serverUplinkOffsetTime)}, with
\* the uplink offset of the run's time-sync call.
C30_UplinkSubtest ==
    /\ [](SpeedtestUnderWay =>
              /\ Len(UpPayloads) = Len(UpSubtestsStarted)
              /\ \A i \in DOMAIN UpPayloads :
                    UpPayloads[i].byteLength = UpSubtestsStarted[i].size)
    /\ [][Len(UpPayloads') > Len(UpPayloads) =>
              /\ Len(UpPayloads') = Len(UpPayloads) + 1
              /\ UpPayloads'[Len(UpPayloads')].f64[1] = get_time("client", now')]_vars
    /\ [](/\ Len(StatsSent) =
               Len(UpPayloads)
               - Len(SelectSeq(inbox["server"],
                               LAMBDA f : f.kind = speedtest_CS_binary_data_up))
          /\ \A i \in DOMAIN StatsSent :
                /\ StatsSent[i].size = UpPayloads[i].byteLength
                /\ StatsSent[i].time[1] = UpPayloads[i].f64[1])
    /\ [][Len(StatsSent') > Len(StatsSent) =>
              /\ Len(StatsSent') = Len(StatsSent) + 1
              /\ StatsSent'[Len(StatsSent')].time[2] = get_time("server", now')]_vars
    /\ [][(/\ inbox["client"] # <<>>
           /\ Head(inbox["client"]).kind = speedtest_SC_json_stat_up
           /\ inbox'["client"] = Tail(inbox["client"])) =>
              LET stat == Head(inbox["client"])
                  result == st_client.results'[Len(st_client.results')]
              IN /\ Len(st_client.results') = Len(st_client.results) + 1
                 /\ result.mode = "up"
                 /\ result.size = stat.size
                 /\ result.time = Less(stat.time[2], Plus(stat.time[1], RunOffsets[1]))]_vars

(***************************************************************************)
(* Claims about sub-tests of fewer than 8 bytes (specification             *)
(* SpecSubtest).                                                           *)
(***************************************************************************)
\* the pattern of the latest speed-test call has a sub-test of fewer than 8
\* bytes
HasSmallSubtest ==
    \E i \in DOMAIN LatestSpeedtest.pattern : LatestSpeedtest.pattern[i].size < 8

\* C31 as stated: a speed-test call whose pattern has a sub-test of fewer
\* than 8 bytes still runs every sub-test to its end: once its generator has
\* finished, or nothing is on its way any more, the call has resolved with
\* one result per sub-test, each of the mode asked for.
C31_SmallSubtestsComplete ==
    (/\ SpeedtestUnderWay
     /\ HasSmallSubtest
     /\ \/ st_client.executeNextTest.state = "completed"
        \/ NothingInFlight) =>
        /\ LatestSpeedtest.state = "resolved"
        /\ Len(LatestSpeedtest.value) = Len(LatestSpeedtest.pattern)
        /\ \A i \in DOMAIN LatestSpeedtest.pattern :
              LatestSpeedtest.value[i].mode = LatestSpeedtest.pattern[i].mode

(***************************************************************************)
(* Claims about the frames of a whole time-sync call (specification        *)
(* SpecTimesync).                                                          *)
(***************************************************************************)
\* the init messages the client sent since the latest call began
InitsSent == SelectSeq(sentLog["client"], LAMBDA f : f.kind = timesync_CS_json_init)

\* C32: no frame of a TimesyncFn call is sent twice: since the call began
\* the client has sent one init message, at most N round buffers and at most
\* one end message, and nothing else; the server has sent at most one ready
\* acknowledgement and one reply for each round buffer it has handled, and
\* nothing else; and when the call has resolved the counts are exactly one
\* init, N round buffers, one end, one ready and N replies.
C32_NothingIsSentTwice ==
    ts_calls # <<>> =>
        /\ Len(InitsSent) = 1
        /\ Len(RoundsSent) <= LatestCall.amount
        /\ Len(EndsSent) <= 1
        /\ Len(sentLog["client"]) = 1 + Len(RoundsSent) + Len(EndsSent)
        /\ Len(ReadiesSent) <= 1
        /\ Len(RepliesSent) = RoundsHandled
        /\ Len(sentLog["server"]) = Len(ReadiesSent) + Len(RepliesSent)
        /\ LatestResolved =>
              /\ Len(RoundsSent) = LatestCall.amount
              /\ Len(EndsSent) = 1
              /\ Len(ReadiesSent) = 1
              /\ Len(RepliesSent) = LatestCall.amount

\* C32's case: the second call, of three rounds, has resolved and its end
\* message has been handled by the server.
C32_Witness ==
    /\ callStart.n = 2
    /\ LatestResolved
    /\ LatestCall.amount = 3
    /\ Len(RoundsSent) = 3
    /\ Len(RepliesSent) = 3
    /\ inbox["server"] = <<>>
    /\ lastEvent["server"].kind = timesync_CS_json_end

(***************************************************************************)
(* The plugins specification: both Socks exist on an open connection with  *)
(* empty routing tables; the time-sync and the speed-test plugins are      *)
(* applied to them, each side's once and in any order, while the           *)
(* application adds receivers of its own to the client's Sock.  sockCall   *)
(* keeps the plugin functions called so far, in the order of the calls.    *)
(***************************************************************************)
\* one call of a plugin's applyServerPlugin(sock) or applyClientPlugin(sock):
\* its addJsonReceiver and addBinaryReceiver calls leave the tables `json`
\* and `binary`
ApplyPlugin(e, fn, json, binary) ==
    /\ \A i \in DOMAIN sockCall.ret : sockCall.ret[i] # fn
    /\ sockSocket[e] # "none"
    /\ jsonReceivers' = [jsonReceivers EXCEPT ![e] = json]
    /\ binaryReceivers' = [binaryReceivers EXCEPT ![e] = binary]
    /\ sockCall' = [fn |-> fn, arg |-> <<e>>, ret |-> Append(sockCall.ret, fn),
                    nth |-> 0]
    /\ UNCHANGED <<binaryReceiverNextKind, connVars, netVars, lastEvent, protocolVars>>

TimesyncApplyServerPlugin ==
    ApplyPlugin("server", "timesync_applyServerPlugin",
                timesync_applyServerPlugin_json(jsonReceivers["server"]),
                timesync_applyServerPlugin_binary(binaryReceivers["server"]))

TimesyncApplyClientPlugin ==
    ApplyPlugin("client", "timesync_applyClientPlugin",
                timesync_applyClientPlugin_json(jsonReceivers["client"]),
                timesync_applyClientPlugin_binary(binaryReceivers["client"]))

SpeedtestApplyServerPlugin ==
    ApplyPlugin("server", "speedtest_applyServerPlugin",
                speedtest_applyServerPlugin_json(jsonReceivers["server"]),
                speedtest_applyServerPlugin_binary(binaryReceivers["server"]))

SpeedtestApplyClientPlugin ==
    ApplyPlugin("client", "speedtest_applyClientPlugin",
                speedtest_applyClientPlugin_json(jsonReceivers["client"]),
                speedtest_applyClientPlugin_binary(binaryReceivers["client"]))

NextPlugins ==
    \/ TimesyncApplyServerPlugin
    \/ TimesyncApplyClientPlugin
    \/ SpeedtestApplyServerPlugin
    \/ SpeedtestApplyClientPlugin
    \/ ClientAddJsonReceiver
    \/ ClientAddBinaryReceiver

SpecPlugins == InitSock /\ [][NextPlugins]_vars

(***************************************************************************)
(* Claims about the kinds of the two plugins (specification SpecPlugins).  *)
(***************************************************************************)
\* the plugin functions called so far
Applied == {sockCall.ret[i] : i \in DOMAIN sockCall.ret}

\* the kinds of the time-sync plugin (of either version of it) and of the
\* speed-test plugin: of their text messages and of their binary frames
TimesyncJsonKinds ==
    {timesync_CS_json_init, timesync_SC_json_init_ready, timesync_CS_json_end,
     timesync0_plugin_json_kind_init, timesync0_plugin_json_kind_end}

TimesyncBinaryKinds ==
    {timesync_CS_binary_ct0, timesync_SC_binary_ct0st0st1, timesync0_plugin_binary_kind}

SpeedtestJsonKinds ==
    {speedtest_CS_json_init, speedtest_SC_json_init_ready, speedtest_CS_json_next_down,
     speedtest_SC_json_stat_up, speedtest_CS_json_end}

SpeedtestBinaryKinds == {speedtest_SC_binary_data_down, speedtest_CS_binary_data_up}

\* every receiver of the table `plugin` is in the table `receivers`, under
\* its kind
Registered(plugin, receivers) ==
    \A kind \in DOMAIN plugin :
        kind \in DOMAIN receivers /\ receivers[kind] = plugin[kind]

\* C33: no kind of the time-sync plugin is a kind of the speed-test plugin,
\* and once a plugin function has been called on a Sock, every receiver it
\* added stays in the Sock's tables under its kind, whichever other plugin
\* function is called before or after it and whatever the application adds
\* under kinds of its own.
C33_PluginsDoNotCollide ==
    /\ (TimesyncJsonKinds \cup TimesyncBinaryKinds)
           \cap (SpeedtestJsonKinds \cup SpeedtestBinaryKinds) = {}
    /\ "timesync_applyServerPlugin" \in Applied =>
          /\ Registered(timesync_applyServerPlugin_json(EmptyReceivers),
                        jsonReceivers["server"])
          /\ Registered(timesync_applyServerPlugin_binary(EmptyReceivers),
                        binaryReceivers["server"])
    /\ "timesync_applyClientPlugin" \in Applied =>
          /\ Registered(timesync_applyClientPlugin_json(EmptyReceivers),
                        jsonReceivers["client"])
          /\ Registered(timesync_applyClientPlugin_binary(EmptyReceivers),
                        binaryReceivers["client"])
    /\ "speedtest_applyServerPlugin" \in Applied =>
          /\ Registered(speedtest_applyServerPlugin_json(EmptyReceivers),
                        jsonReceivers["server"])
          /\ Registered(speedtest_applyServerPlugin_binary(EmptyReceivers),
                        binaryReceivers["server"])
    /\ "speedtest_applyClientPlugin" \in Applied =>
          /\ Registered(speedtest_applyClientPlugin_json(EmptyReceivers),
                        jsonReceivers["client"])
          /\ Registered(speedtest_applyClientPlugin_binary(EmptyReceivers),
                        binaryReceivers["client"])

\* C33's case: all four plugin functions were called, the speed-test
\* plugin's before the time-sync plugin's on the server and after it on the
\* client, and the application has added receivers of its own.
C33_Witness ==
    /\ sockCall.ret = <<"speedtest_applyServerPlugin", "timesync_applyServerPlugin",
                        "timesync_applyClientPlugin", "speedtest_applyClientPlugin">>
    /\ Cardinality(DOMAIN jsonReceivers["server"]) = 5
    /\ Cardinality(DOMAIN jsonReceivers["client"]) = 5
    /\ Cardinality(DOMAIN binaryReceivers["client"]) = 3

(***************************************************************************)
(* Claims about calls running to their end (specification SpecSpeedtest).  *)
(***************************************************************************)
\* the pattern of a speed-test call may be a non-empty one of sub-tests of at
\* least 8 bytes: the pattern is first read past the await, where the call's
\* generator is made, and until then the call is one with any pattern
MayBeOfSizesFrom8(call) ==
    \/ st_client.executeNextTest.call # call.id
    \/ /\ call.pattern # <<>>
       /\ \A i \in DOMAIN call.pattern : call.pattern[i].size >= 8

\* C34 as stated: over a connection that delivers every frame once and in
\* order, every TimesyncFn call of at least one round and every speed-test
\* call of a non-empty pattern of sub-tests of at least 8 bytes comes to
\* resolve: no such call ends rejected, and when no frame is on its way any
\* more (so that no task is left to run) every such call has resolved.
C34_EveryCallResolves ==
    /\ \A c \in DOMAIN ts_calls :
          ts_calls[c].amount >= 1 =>
              /\ ts_calls[c].state # "rejected"
              /\ Quiet => ts_calls[c].state = "resolved"
    /\ \A c \in DOMAIN st_calls :
          MayBeOfSizesFrom8(st_calls[c]) =>
              /\ st_calls[c].state # "rejected"
              /\ Quiet => st_calls[c].state = "resolved"

(***************************************************************************)
(* The specification of kept lists: the time-sync set-up, with an          *)
(* application that calls the TimesyncFn again after each call has         *)
(* resolved and keeps every promise, and so every list a call resolved     *)
(* with.                                                                   *)
(***************************************************************************)
InitKept ==
    /\ SocksCreated
    /\ jsonReceivers = [e \in Endpoints |-> PluginJsonReceivers(e, "timesync")]
    /\ binaryReceivers = [e \in Endpoints |-> PluginBinaryReceivers(e, "timesync")]
    /\ binaryReceiverNextKind = [e \in Endpoints |-> Undefined]
    /\ now = 0
    /\ clockSkew \in ClockSkews
    /\ timeCap = MaxKeptTime
    /\ testCap = 0
    /\ ClosuresInitial("timesync")
    /\ callStart = NoCall
    /\ pureCall = NoPureCall
    /\ sockCall = NoSockCall

KeptCall ==
    /\ callStart.n < MaxKeptCalls
    /\ AllSettled
    /\ \E amount \in 0..MaxKeptRounds :
           LET X == TimesyncFn(Task("client"), amount) IN
           /\ Send("client", X.out)
           /\ LogAfresh("client", X.out)
           /\ TaskDone("client", X)
           /\ callStart' = [n |-> callStart.n + 1,
                            promises |-> X.made,
                            client |-> binaryReceiverNextKind["client"],
                            server |-> binaryReceiverNextKind["server"],
                            quiet |-> inbox["server"] = <<>>,
                            lost |-> callStart.lost, atInit |-> callStart.atInit]
           /\ UNCHANGED <<now, lastEvent>>

NextKept ==
    \/ KeptCall
    \/ ClientMessageEvent
    \/ ServerMessageEvent

SpecKept == InitKept /\ [][NextKept]_vars

(***************************************************************************)
(* Claims about the lists of successive time-sync calls (specification     *)
(* SpecKept).                                                              *)
(***************************************************************************)
\* C35: of TimesyncFn calls made one after the other, each after the one
\* before has resolved, every one resolves with exactly as many samples as
\* its amount; the samples of the latest are those derived from its own
\* round buffers and replies, in order; no sample is left in the closure's
\* `results` when every call has resolved; and a list a call has resolved
\* with is the same in every later state.
C35_EachCallItsOwnSamples ==
    /\ [](\A c \in DOMAIN ts_calls :
              ts_calls[c].state = "resolved" =>
                  Len(ts_calls[c].value) = ts_calls[c].amount)
    /\ [](LatestResolved =>
              /\ Len(RepliesSent) = LatestCall.amount
              /\ \A i \in DOMAIN LatestCall.value :
                    LET ct0 == RoundsSent[i].f64[1]
                        st0 == RepliesSent[i].f64[2]
                        st1 == RepliesSent[i].f64[3]
                        ct1 == LatestCall.value[i].serverDownlinkOffsetTime + st1
                    IN LatestCall.value[i] =
                           time_array_to_timesync_result(<<ct0, st0, st1, ct1>>))
    /\ [](AllSettled => ts_client.results = <<>>)
    /\ [][\A c \in DOMAIN ts_calls :
              ts_calls[c].state = "resolved" =>
                  /\ c \in DOMAIN ts_calls'
                  /\ ts_calls'[c] = ts_calls[c]]_vars

\* C35's case: two calls of two rounds each have resolved, the second with
\* samples that differ from those of the first, which the application still
\* holds.
C35_Witness ==
    /\ Len(ts_calls) = 2
    /\ ts_calls[1].state = "resolved"
    /\ ts_calls[2].state = "resolved"
    /\ ts_calls[1].amount = 2
    /\ ts_calls[2].amount = 2
    /\ Len(ts_calls[1].value) = 2
    /\ ts_calls[1].value # ts_calls[2].value

(***************************************************************************)
(* The specification of overlapping calls: the time-sync set-up, with an   *)
(* application that calls the TimesyncFn and calls it a second time while  *)
(* the promise of the first call is pending.  It keeps both promises, and  *)
(* callStart keeps what the Socks expected before the first call.          *)
(***************************************************************************)
InitOverlap ==
    /\ SocksCreated
    /\ jsonReceivers = [e \in Endpoints |-> PluginJsonReceivers(e, "timesync")]
    /\ binaryReceivers = [e \in Endpoints |-> PluginBinaryReceivers(e, "timesync")]
    /\ binaryReceiverNextKind \in [Endpoints -> PriorKinds]
    /\ now = 0
    /\ clockSkew \in ClockSkews
    /\ timeCap = 0
    /\ testCap = 0
    /\ ClosuresInitial("timesync")
    /\ callStart = NoCall
    /\ pureCall = NoPureCall
    /\ sockCall = NoSockCall

OverlapFirstCall ==
    /\ callStart.n = 0
    /\ \E amount \in 0..MaxOverlapRounds :
           LET X == TimesyncFn(Task("client"), amount) IN
           /\ Send("client", X.out)
           /\ LogAfresh("client", X.out)
           /\ TaskDone("client", X)
           /\ callStart' = [callStart EXCEPT
                               !.n = 1,
                               !.promises = X.made,
                               !.client = binaryReceiverNextKind["client"],
                               !.server = binaryReceiverNextKind["server"]]
           /\ UNCHANGED <<now, lastEvent>>

OverlapSecondCall ==
    /\ callStart.n = 1
    /\ ts_calls[1].state = "pending"
    /\ \E amount \in 0..MaxOverlapRounds :
           LET X == TimesyncFn(Task("client"), amount) IN
           /\ Send("client", X.out)
           /\ Log("client", X.out)
           /\ TaskDone("client", X)
           /\ callStart' = [callStart EXCEPT !.n = 2, !.promises = X.made]
           /\ UNCHANGED <<now, lastEvent>>

NextOverlap ==
    \/ OverlapFirstCall
    \/ OverlapSecondCall
    \/ ClientMessageEvent
    \/ ServerMessageEvent

SpecOverlap == InitOverlap /\ [][NextOverlap]_vars

(***************************************************************************)
(* Claims about overlapping time-sync calls (specification SpecOverlap).   *)
(***************************************************************************)
\* C36: once the TimesyncFn was called a second time while the promise of
\* the first call was pending, the first promise stays pending in every
\* later state; and in every state in which the second promise has resolved
\* the client expects the kind of the round replies, which is not what it
\* expected before the first call.
C36_OverlappedCallNeverResolves ==
    Len(ts_calls) = 2 =>
        /\ ts_calls[1].state = "pending"
        /\ ts_calls[2].state = "resolved" =>
              /\ binaryReceiverNextKind["client"] = Str(timesync_SC_binary_ct0st0st1)
              /\ binaryReceiverNextKind["client"] # callStart.client

\* C36's case: the client expected k1 before the first call; the second
\* call, of two rounds, has resolved and every frame of both calls has been
\* handled.
C36_Witness ==
    /\ Len(ts_calls) = 2
    /\ callStart.client = Str("k1")
    /\ ts_calls[2].amount = 2
    /\ ts_calls[2].state = "resolved"
    /\ NothingInFlight

(***************************************************************************)
(* Claims about successive messages at the dispatcher (specification       *)
(* Spec).                                                                  *)
(***************************************************************************)
\* a step in which the listener of the client's Sock handles the next frame
\* (lastEvent then tells the message before, lastEvent' this one)
ClientListens ==
    /\ sockSocket["client"] # "none"
    /\ inbox["client"] # <<>>
    /\ inbox'["client"] = Tail(inbox["client"])

\* C37: the dispatch of a binary message to a handler that does not call
\* expectBinaryKind leaves the expected binary kind as it was; and a binary
\* message that follows a binary message, with the expected binary kind and
\* the handler registered under it the same as for the one before, goes to
\* the same handler as the one before.
C37_BinaryDispatchKeepsKind ==
    [][(ClientListens /\ Head(inbox["client"]).type = "binary") =>
          /\ binaryReceiverNextKind' = binaryReceiverNextKind
          /\ (/\ lastEvent["client"].type = "binary"
              /\ lastEvent["client"].nextKind = lastEvent'["client"].nextKind
              /\ lastEvent["client"].registered = lastEvent'["client"].registered) =>
                 /\ lastEvent'["client"].called = lastEvent["client"].called
                 /\ lastEvent'["client"].threw = lastEvent["client"].threw]_vars

\* C37's case: a binary message went to hA, registered under the expected
\* kind k1; the expected kind is still k1, and the next binary message has
\* arrived with no text message in between.
C37_Witness ==
    /\ lastEvent["client"].type = "binary"
    /\ lastEvent["client"].nextKind = Str("k1")
    /\ lastEvent["client"].called = <<"hA">>
    /\ binaryReceiverNextKind["client"] = Str("k1")
    /\ "k1" \in DOMAIN binaryReceivers["client"]
    /\ binaryReceivers["client"]["k1"] = "hA"
    /\ inbox["client"] # <<>>
    /\ Head(inbox["client"]).type = "binary"

\* C38: a message for which the listener throws (no function is registered
\* under its kind, nor inherited) leaves both tables, the expected binary
\* kind and the listener's socket as they were; and the message handled next
\* after such a one, if a handler is registered for it, goes to that handler
\* and nothing is thrown.
C38_RoutingErrorChangesNothing ==
    [][ClientListens =>
          /\ lastEvent'["client"].threw =>
                /\ jsonReceivers' = jsonReceivers
                /\ binaryReceivers' = binaryReceivers
                /\ binaryReceiverNextKind' = binaryReceiverNextKind
                /\ sockSocket' = sockSocket
          /\ (lastEvent["client"].threw /\ lastEvent'["client"].registered # <<>>) =>
                /\ lastEvent'["client"].called = lastEvent'["client"].registered
                /\ ~lastEvent'["client"].threw]_vars

\* C38's case: the listener threw on a binary message that arrived while k2
\* was expected and only k1 had a binary handler; the tables and the
\* expected kind are as they were, and a text message of kind k1, which has
\* a handler, is the next to be handled.
C38_Witness ==
    /\ lastEvent["client"].threw
    /\ lastEvent["client"].type = "binary"
    /\ lastEvent["client"].nextKind = Str("k2")
    /\ binaryReceiverNextKind["client"] = Str("k2")
    /\ DOMAIN binaryReceivers["client"] = {"k1"}
    /\ "k1" \in DOMAIN jsonReceivers["client"]
    /\ inbox["client"] # <<>>
    /\ Head(inbox["client"]).type = "text"
    /\ Head(inbox["client"]).kind = "k1"

(***************************************************************************)
(* The arithmetic of JavaScript numbers (IEEE 754 binary64) on timestamps  *)
(* with fractions of a millisecond, as performance.now() returns them.  A  *)
(* number is a sign and a magnitude counted in units of 2^-56, kept in two *)
(* limbs of 28 bits: its value is (hi * 2^28 + lo) * 2^-56, negated if     *)
(* neg.  A binary64 holds 53 significant bits, so the result of a          *)
(* subtraction or an addition is the exact result rounded to 53 bits, ties *)
(* to the even neighbour.  The magnitudes here stay below 4.               *)
(***************************************************************************)
Limb == 2^28

MagnitudeAtLeast(a, b) == a.hi > b.hi \/ (a.hi = b.hi /\ a.lo >= b.lo)

MagnitudeSum(a, b) ==
    IF a.lo + b.lo >= Limb
    THEN [hi |-> a.hi + b.hi + 1, lo |-> a.lo + b.lo - Limb]
    ELSE [hi |-> a.hi + b.hi, lo |-> a.lo + b.lo]

\* a - b for magnitudes a >= b
MagnitudeDifference(a, b) ==
    IF a.lo < b.lo
    THEN [hi |-> a.hi - b.hi - 1, lo |-> a.lo + Limb - b.lo]
    ELSE [hi |-> a.hi - b.hi, lo |-> a.lo - b.lo]

\* the number of sign `neg` and magnitude m (zero has no sign here: 0 and -0
\* are equal numbers)
Signed(neg, m) == [neg |-> neg /\ (m.hi # 0 \/ m.lo # 0), hi |-> m.hi, lo |-> m.lo]

Negated(x) == Signed(~x.neg, x)

\* x + y as a real number
ExactSum(x, y) ==
    IF x.neg = y.neg THEN Signed(x.neg, MagnitudeSum(x, y))
    ELSE IF MagnitudeAtLeast(x, y) THEN Signed(x.neg, MagnitudeDifference(x, y))
    ELSE Signed(y.neg, MagnitudeDifference(y, x))

\* the number of bits of n
BitLength(n) == CHOOSE b \in 0..30 : n < 2^b /\ (b = 0 \/ n >= 2^(b - 1))

\* the binary64 nearest to the real number x: the bits below the 53 leading
\* ones are rounded away, a tie going to the neighbour whose last bit is 0
RoundToBinary64(x) ==
    LET b == BitLength(x.hi)
        dropped == IF b > 25 THEN b - 25 ELSE 0
        q == 2^dropped
        r == x.lo % q
        kept == [hi |-> x.hi, lo |-> x.lo - r]
        odd == (x.lo \div q) % 2 = 1
    IN IF 2 * r > q \/ (2 * r = q /\ odd)
       THEN Signed(x.neg, MagnitudeSum(kept, [hi |-> 0, lo |-> q]))
       ELSE Signed(x.neg, kept)

\* the JavaScript expressions x - y and x + y
Float64Difference(x, y) == RoundToBinary64(ExactSum(x, Negated(y)))

Float64Sum(x, y) == RoundToBinary64(ExactSum(x, y))

\* the binary64 values of 0.1, 0.2, 0.3, 0.4, 1 and 2
Float64Timestamps ==
    {[neg |-> FALSE, hi |-> 26843545, lo |-> 161061274],
     [neg |-> FALSE, hi |-> 53687091, lo |-> 53687092],
     [neg |-> FALSE, hi |-> 80530636, lo |-> 214748364],
     [neg |-> FALSE, hi |-> 107374182, lo |-> 107374184],
     [neg |-> FALSE, hi |-> Limb, lo |-> 0],
     [neg |-> FALSE, hi |-> 2 * Limb, lo |-> 0]}

\* x is a whole number
WholeNumber(x) == x.lo = 0 /\ x.hi % Limb = 0

\* a derivation whose return trip time keeps the server's process time
time_array_to_timesync_result_f64_gross(time_array) ==
    LET ct0 == time_array[1]
        st0 == time_array[2]
        st1 == time_array[3]
        ct1 == time_array[4]
    IN [serverUplinkOffsetTime |-> Float64Difference(st0, ct0),
        serverDownlinkOffsetTime |-> Float64Difference(ct1, st1),
        serverProcessTime |-> Float64Difference(st1, st0),
        returnTripTime |-> Float64Difference(ct1, ct0)]

\* time_array_to_timesync_result on numbers that are not whole
time_array_to_timesync_result_f64(time_array) ==
    LET ct0 == time_array[1]
        st0 == time_array[2]
        st1 == time_array[3]
        ct1 == time_array[4]
        serverUplinkOffsetTime == Float64Difference(st0, ct0)
        serverDownlinkOffsetTime == Float64Difference(ct1, st1)
        serverProcessTime == Float64Difference(st1, st0)
        returnTripTime == Float64Difference(Float64Difference(ct1, ct0), serverProcessTime)
    IN [serverUplinkOffsetTime |-> serverUplinkOffsetTime,
        serverDownlinkOffsetTime |-> serverDownlinkOffsetTime,
        serverProcessTime |-> serverProcessTime,
        returnTripTime |-> returnTripTime]

(***************************************************************************)
(* The specification of the sample in 64-bit floats: one call of           *)
(* time_array_to_timesync_result with four timestamps that are binary64    *)
(* values, whole or not.                                                   *)
(***************************************************************************)
Float64TimeArrays ==
    {<<ct0, st0, st1, ct1>> : ct0 \in Float64Timestamps, st0 \in Float64Timestamps,
                              st1 \in Float64Timestamps, ct1 \in Float64Timestamps}

InitFloat64 ==
    /\ readyState = [e \in Endpoints |-> "CLOSED"]
    /\ createState = [e \in Endpoints |-> "idle"]
    /\ openListener = [e \in Endpoints |-> FALSE]
    /\ sockSocket = [e \in Endpoints |-> "none"]
    /\ jsonReceivers = [e \in Endpoints |-> EmptyReceivers]
    /\ binaryReceivers = [e \in Endpoints |-> EmptyReceivers]
    /\ binaryReceiverNextKind = [e \in Endpoints |-> Undefined]
    /\ inbox = [e \in Endpoints |-> <<>>]
    /\ sentLog = [e \in Endpoints |-> <<>>]
    /\ lastEvent = [e \in Endpoints |-> NoEvent]
    /\ now = 0
    /\ clockSkew = 0
    /\ timeCap = 0
    /\ testCap = 0
    /\ ClosuresInitial("timesync")
    /\ callStart = NoCall
    /\ pureCall \in {[fn |-> "time_array_to_timesync_result", arg |-> a, ret |-> <<>>] :
                         a \in Float64TimeArrays}
    /\ sockCall = NoSockCall

\* time_array_to_timesync_result(arg) returns
ReturnFloat64TimesyncResult ==
    /\ pureCall.fn = "time_array_to_timesync_result"
    /\ pureCall.ret = <<>>
    /\ pureCall' = [pureCall EXCEPT
                       !.ret = <<time_array_to_timesync_result_f64(pureCall.arg)>>]
    /\ UNCHANGED <<connVars, sockVars, netVars, lastEvent, now, clockSkew, timeCap,
                   testCap, closureVars, callStart, sockCall>>

SpecFloat64 == InitFloat64 /\ [][ReturnFloat64TimesyncResult]_vars

(***************************************************************************)
(* Claims about the sample in 64-bit floats (specification SpecFloat64).   *)
(***************************************************************************)
\* the returnTripTime of the sample r is the sum of its two offsets: the sum
\* as a real number, or the sum as the expression a + b gives it
OffsetsSumToReturnTrip(r) ==
    \/ r.returnTripTime = ExactSum(r.serverUplinkOffsetTime, r.serverDownlinkOffsetTime)
    \/ r.returnTripTime = Float64Sum(r.serverUplinkOffsetTime, r.serverDownlinkOffsetTime)

\* C39 as stated: for all values of (ct0, st0, st1, ct1) the returnTripTime
\* of the derived sample is the sum of its serverUplinkOffsetTime and its
\* serverDownlinkOffsetTime.
C39_OffsetsSumToReturnTrip ==
    pureCall.ret # <<>> => OffsetsSumToReturnTrip(pureCall.ret[1])

\* C39 as amended: for ct0, st0, st1, ct1 that are whole numbers the
\* returnTripTime of the derived sample is the sum of its
\* serverUplinkOffsetTime and its serverDownlinkOffsetTime, as a real number
\* and as the expression a + b gives it.
C39_WholeOffsetsSumToReturnTrip ==
    (pureCall.ret # <<>> /\ \A i \in 1..4 : WholeNumber(pureCall.arg[i])) =>
        LET r == pureCall.ret[1] IN
        /\ r.returnTripTime =
               ExactSum(r.serverUplinkOffsetTime, r.serverDownlinkOffsetTime)
        /\ r.returnTripTime =
               Float64Sum(r.serverUplinkOffsetTime, r.serverDownlinkOffsetTime)

\* C39's case: the sample of (1, 2, 1, 2) has been derived: the offsets are
\* 1 and 1, the process time is -1 and the return trip time is 2.
C39_Witness ==
    /\ pureCall.ret # <<>>
    /\ \A i \in 1..4 : WholeNumber(pureCall.arg[i])
    /\ pureCall.arg[1].hi = Limb
    /\ pureCall.arg[2].hi = 2 * Limb
    /\ pureCall.arg[3].hi = Limb
    /\ pureCall.arg[4].hi = 2 * Limb
    /\ pureCall.ret[1].serverProcessTime = [neg |-> TRUE, hi |-> Limb, lo |-> 0]
    /\ pureCall.ret[1].returnTripTime = [neg |-> FALSE, hi |-> 2 * Limb, lo |-> 0]

(***************************************************************************)
(* Claims about a time-sync call of no rounds (specification               *)
(* SpecTimesync).                                                          *)
(***************************************************************************)
\* C40: a TimesyncFn call with amount 0 is not rejected and sends no round
\* buffer; until the client has received the ready acknowledgement the call
\* is pending and no end message is sent; once it has, the client has sent
\* the end message, expects the kind it expected before the call, and the
\* call has resolved with an empty list.
C40_NoRoundsStillResolves ==
    (ts_calls # <<>> /\ LatestCall.amount = 0) =>
        /\ LatestCall.state \in {"pending", "resolved"}
        /\ RoundsSent = <<>>
        /\ RepliesSent = <<>>
        /\ ~ReadyReceived =>
              /\ LatestCall.state = "pending"
              /\ EndsSent = <<>>
        /\ ReadyReceived =>
              /\ LatestCall.state = "resolved"
              /\ LatestCall.value = <<>>
              /\ Len(EndsSent) = 1
              /\ binaryReceiverNextKind["client"] = callStart.client

\* C40's case: a call with amount 0, made while the client expected k1, has
\* resolved, and the server has handled its end message.
C40_Witness ==
    /\ ts_calls # <<>>
    /\ LatestCall.amount = 0
    /\ callStart.client = Str("k1")
    /\ LatestResolved
    /\ ReadyReceived
    /\ Len(EndsSent) = 1
    /\ inbox["server"] = <<>>
    /\ binaryReceiverNextKind["client"] = Str("k1")

=============================================================================
